---- MODULE Spec2Model ----
(***************************************************************************)
(* Verification model of the DarwinCore network core:                      *)
(*   - SendBuffer        (src/src/darwincore/network/send_buffer.cpp)      *)
(*   - WorkerPool/Queue  (src/src/darwincore/network/worker_pool.cpp)      *)
(*   - Reactor           (src/unnamed/part_026)                            *)
(*   - Frame codec       (src/unnamed/part_027)                            *)
(* Each subsystem has its own specification (SpecSendBuffer, SpecPool,     *)
(* SpecReactor, SpecCodec, SpecCrc); the variables of the other subsystems *)
(* stay at their idle values.                                              *)
(***************************************************************************)
EXTENDS Integers, Sequences, FiniteSets, TLC

VARIABLES
  (* SendBuffer *)
  buffer_size,      \* buffer_.size(), the capacity
  buffer_,          \* the bytes of buffer_, as runs of bytes of the Write calls
  sb_pending,       \* the bytes Write accepted and send() has not taken, as runs
  read_pos_,        \* read position
  write_pos_,       \* write position
  sb_last,          \* the last SendBuffer call: its name, arguments, return value
  sb_ops            \* number of SendBuffer calls made so far

sbVars == <<buffer_size, buffer_, sb_pending, read_pos_, write_pos_, sb_last, sb_ops>>

VARIABLES
  (* WorkerPool *)
  worker_count_,    \* number of workers and of event queues
  wp_is_running_,   \* WorkerPool::is_running_
  event_callback_,  \* TRUE when WorkerPool::event_callback_ holds a callable
  event_queues_,    \* worker id -> the queue_ of its ConcurrentQueue
  worker_pc,        \* worker id -> position of its thread in WorkerLoop
  worker_event,     \* worker id -> the event its thread has dequeued
  stop_pc,          \* position of the thread running WorkerPool::Stop
  next_tag,         \* connection id -> number of events submitted for it
  delivered,        \* connection id -> tags of its events, in callback order
  stop_seen         \* connection id -> number of events submitted when Stop was last called

wpVars == <<worker_count_, wp_is_running_, event_callback_, event_queues_,
            worker_pc, worker_event, stop_pc, next_tag, delivered, stop_seen>>

VARIABLES
  (* Reactor *)
  r_is_running_,        \* Reactor::is_running_
  next_connection_id_,  \* next local id to assign
  connections_,         \* connection_id -> file descriptor of its ReactorConnection
  fd_to_connection_id_, \* fd -> connection_id
  monitored,            \* descriptors registered with the IOMonitor
  sock,                 \* descriptor -> state of the socket behind it
  events,               \* connection_id -> types of its submitted events, in order
  loop_pc,              \* position of the event loop thread
  loop_batch,           \* events returned by WaitEvents and not yet dispatched
  loop_conn,            \* fd and connection_id held by HandleReadEvent
  caller_pc,            \* caller thread -> position inside a public method
  caller_conn,          \* caller thread -> fd and connection_id the call holds
  removed               \* ids for which RemoveConnection, called by the owner, returned true

rVars == <<r_is_running_, next_connection_id_, connections_, fd_to_connection_id_,
           monitored, sock, events, loop_pc, loop_batch, loop_conn,
           caller_pc, caller_conn, removed>>

VARIABLES
  (* Frame codec *)
  scenario,         \* the encoder calls whose frames are put on the wire
  c_phase,          \* "idle", "encode", "feed", or "failed" when the encoder threw
  enc_thrown,       \* what() of the ProtocolError the encoder threw, "" if none
  wire,             \* the serialized frames, in transmission order
  fed,              \* number of bytes of wire passed to Decoder::Feed so far
  decoder,          \* the Decoder object
  got_messages,     \* results of the GetMessage calls, in order
  got_events        \* results of the GetStreamEvent calls, in order

cVars == <<scenario, c_phase, enc_thrown, wire, fed, decoder, got_messages,
           got_events>>

VARIABLES
  (* Reactor::SendData on one connection, and the peer's HandleReadEvent *)
  sd_open,          \* the connection is in connections_ and its fd is open
  sd_err,           \* the peer has reset the connection
  sd_pc,            \* sender thread -> "idle", or "send" inside SendData's loop
  sd_call,          \* sender thread -> number of the call it is running
  sd_sent,          \* sender thread -> the local variable sent
  sd_eagain,        \* sender thread -> send() returned EAGAIN in its current call
  sd_sizes,         \* call number -> its size argument
  sd_ret,           \* call number -> "none", or the value the call returned
  sd_kernel,        \* bytes send() accepted and the peer has not yet received
  sd_delivered,     \* payloads of the peer's kData events, one per recv
  sd_events         \* kError / kDisconnected events submitted for the connection

sdVars == <<sd_open, sd_err, sd_pc, sd_call, sd_sent, sd_eagain, sd_sizes, sd_ret,
            sd_kernel, sd_delivered, sd_events>>

\* Connection ids: Reactor::AddConnection called on several reactors from several
\* threads. A uint64_t is a tuple of four 16-bit limbs, lowest first.
VARIABLES
  ids_next,         \* reactor_id_ -> that reactor's next_connection_id_
  ids_pc,           \* thread -> "idle", "read" (local_id read), "made" (id computed)
  ids_reactor,      \* thread -> reactor_id_ of the reactor it called
  ids_fd,           \* thread -> the fd argument of its call
  ids_local,        \* thread -> local_id
  ids_started,      \* number of AddConnection calls made so far
  ids_assigned      \* connections registered: [reactor, fd, connection_id]

idVars == <<ids_next, ids_pc, ids_reactor, ids_fd, ids_local, ids_started,
            ids_assigned>>

\* A Decoder fed with frames that arrive from the network.
VARIABLES
  rd_frames,        \* the frames the peer may send, each with what it is
  rd_pool,          \* frame number -> how many more times the peer sends it
  rd_limit,         \* how many frames the peer sends at most
  rd_wire,          \* bytes of the frame in transit not yet passed to Feed
  rd_sent,          \* the frame numbers sent so far, in order
  rd_decoder,       \* the Decoder
  rd_clock,         \* steady_clock, in milliseconds
  rd_last,          \* the last call on the decoder and what it returned
  rd_first,         \* message_id -> time the first slice of its entry was decoded
  rd_seqs,          \* message_id -> sequence numbers decoded into its entry
  rd_done           \* for every completed message: id, total, sequences decoded

rdVars == <<rd_frames, rd_pool, rd_limit, rd_wire, rd_sent, rd_decoder, rd_clock, rd_last,
            rd_first, rd_seqs, rd_done>>

\* A ConcurrentQueue and the threads that call it.
VARIABLES
  q_queue,          \* queue_
  q_max_size_,      \* max_size_
  q_is_stopped_,    \* is_stopped_
  q_pc,             \* thread -> "idle", or the blocking call it is inside
  q_arg,            \* thread -> the value its Enqueue call is adding
  q_next,           \* the next value a producer enqueues
  q_last,           \* the last call that returned, its result, and the queue before
  q_woken           \* threads NotifyStop found blocked and that have not returned

qVars == <<q_queue, q_max_size_, q_is_stopped_, q_pc, q_arg, q_next, q_last, q_woken>>

\* A Client, its user thread, its worker thread and its reactor thread.
VARIABLES
  cl_state,         \* state_
  cl_connection_id, \* connection_id_
  cl_reactor,       \* whether reactor_ and worker_pool_ exist
  cl_conns,         \* descriptors of the connections the reactor holds
  cl_next_fd,       \* the descriptor the next socket() call returns
  cl_events,        \* the event queue of the one worker
  cl_on_message,    \* on_message_
  cl_writing,       \* the callback a SetOnMessage call is assigning, or "none"
  cl_sets,          \* number of SetOnMessage calls so far
  cl_replies,       \* number of Data events so far
  cl_invoked,       \* the on_message callbacks invoked, in order
  cl_last,          \* the last call of the user thread that returned
  cl_closes         \* descriptor -> number of close() calls made on it

clVars == <<cl_state, cl_connection_id, cl_reactor, cl_conns, cl_next_fd, cl_events,
            cl_on_message, cl_writing, cl_sets, cl_replies, cl_invoked, cl_last, cl_closes>>

vars == <<sbVars, wpVars, rVars, cVars, sdVars, idVars, rdVars, qVars, clVars>>

(***************************************************************************)
(*                              SendBuffer                                 *)
(***************************************************************************)

INITIAL_CAPACITY == 4096
HIGH_WATER_MARK == 8388608
LOW_WATER_MARK == 4194304
MAX_CAPACITY == 33554432

\* Number of SendBuffer calls explored in one run.
MaxSbOps == 4

\* Sizes a caller passes to Write: the empty write, single bytes, the initial
\* capacity and its neighbours, the water marks, and the ceiling and its neighbours.
WriteSizes ==
  {0, 1, INITIAL_CAPACITY - 1, INITIAL_CAPACITY, INITIAL_CAPACITY + 1,
   LOW_WATER_MARK, HIGH_WATER_MARK, MAX_CAPACITY - INITIAL_CAPACITY,
   MAX_CAPACITY - 1, MAX_CAPACITY, MAX_CAPACITY + 1}

\* Byte counts send() may report for `readable` pending bytes.
SentCounts(readable) ==
  {n \in {1, INITIAL_CAPACITY, readable \div 2, (readable \div 2) + 1,
          readable - 1, readable} : n >= 1 /\ n <= readable}

\* Outcomes of send(fd, ..., MSG_DONTWAIT | MSG_NOSIGNAL) other than n > 0.
SendErrnos == {"EAGAIN", "EINTR", "EPIPE", "ZERO"}

Size(r, w) == w - r

\* SendBuffer::Compact on the positions <<read_pos_, write_pos_>>.
Compact(r, w) ==
  IF r = 0 THEN <<r, w>> ELSE <<0, Size(r, w)>>

\* The doubling loop of EnsureWritableSpace.
RECURSIVE GrowCapacity(_, _)
GrowCapacity(new_capacity, required_size) ==
  IF new_capacity < required_size /\ new_capacity < MAX_CAPACITY
    THEN GrowCapacity(new_capacity * 2, required_size)
    ELSE new_capacity

EnsureWritableSpaceNoCeiling(cap, r, w, size) ==
  IF cap - w >= size THEN [ok |-> TRUE, cap |-> cap, r |-> r, w |-> w]
  ELSE
    LET c == IF r > 0 THEN Compact(r, w) ELSE <<r, w>> IN
    IF r > 0 /\ cap - c[2] >= size
      THEN [ok |-> TRUE, cap |-> cap, r |-> c[1], w |-> c[2]]
      ELSE [ok |-> TRUE, cap |-> GrowCapacity(cap, c[2] + size),
            r |-> c[1], w |-> c[2]]

\* SendBuffer::EnsureWritableSpace: the result and the buffer afterwards.
EnsureWritableSpace(cap, r, w, size) ==
  IF cap - w >= size THEN [ok |-> TRUE, cap |-> cap, r |-> r, w |-> w]
  ELSE
    LET c == IF r > 0 THEN Compact(r, w) ELSE <<r, w>> IN
    IF r > 0 /\ cap - c[2] >= size
      THEN [ok |-> TRUE, cap |-> cap, r |-> c[1], w |-> c[2]]
      ELSE
        LET c2 == IF c[2] + size > MAX_CAPACITY /\ c[1] > 0
                    THEN Compact(c[1], c[2]) ELSE c
            required_size == c2[2] + size
        IN IF required_size > MAX_CAPACITY
             THEN [ok |-> FALSE, cap |-> cap, r |-> c2[1], w |-> c2[2]]
             ELSE LET grown == GrowCapacity(cap, required_size)
                      new_capacity == IF grown > MAX_CAPACITY
                                        THEN MAX_CAPACITY ELSE grown
                  IN [ok |-> TRUE, cap |-> new_capacity,
                      r |-> c2[1], w |-> c2[2]]

\* A run [call, off, len] stands for bytes off .. off+len-1 of the data of
\* Write call number `call`; call 0 is a byte no Write call has set.
Run(call, off, len) == [call |-> call, off |-> off, len |-> len]

RECURSIVE RunLen(_)
RunLen(runs) == IF runs = <<>> THEN 0 ELSE Head(runs).len + RunLen(Tail(runs))

\* The first n bytes of runs, and what follows them.
RECURSIVE TakeRuns(_, _)
TakeRuns(runs, n) ==
  IF n <= 0 \/ runs = <<>> THEN <<>>
  ELSE LET h == Head(runs) IN
       IF h.len <= n THEN <<h>> \o TakeRuns(Tail(runs), n - h.len)
       ELSE <<Run(h.call, h.off, n)>>

RECURSIVE DropRuns(_, _)
DropRuns(runs, n) ==
  IF n <= 0 \/ runs = <<>> THEN runs
  ELSE LET h == Head(runs) IN
       IF h.len <= n THEN DropRuns(Tail(runs), n - h.len)
       ELSE <<Run(h.call, IF h.call = 0 THEN 0 ELSE h.off + n, h.len - n)>>
              \o Tail(runs)

\* The same bytes with neighbouring runs joined.
RECURSIVE MergeRuns(_)
MergeRuns(runs) ==
  IF Len(runs) < 2 THEN runs
  ELSE LET a == runs[1]
           b == runs[2]
       IN IF a.call = b.call /\ (a.call = 0 \/ b.off = a.off + a.len)
            THEN MergeRuns(<<Run(a.call, a.off, a.len + b.len)>>
                             \o SubSeq(runs, 3, Len(runs)))
            ELSE <<a>> \o MergeRuns(Tail(runs))

\* The bytes at positions from .. to-1
BytesOf(runs, from, to) == MergeRuns(TakeRuns(DropRuns(runs, from), to - from))

\* std::memcpy / std::memmove(buffer_.data() + pos, src, n) with the bytes src
Memcpy(runs, pos, src) ==
  MergeRuns(TakeRuns(runs, pos) \o src \o DropRuns(runs, pos + RunLen(src)))

\* buffer_.resize(new_capacity): new elements are value-initialized
Resize(runs, new_capacity) ==
  IF new_capacity > RunLen(runs)
    THEN MergeRuns(runs \o <<Run(0, 0, new_capacity - RunLen(runs))>>)
    ELSE TakeRuns(runs, new_capacity)

\* SendBuffer::Compact on the bytes of buffer_: the memmove
CompactBytesInPlace(runs, r, w) == runs

CompactBytes(runs, r, w) ==
  IF r = 0 \/ Size(r, w) = 0 THEN runs
  ELSE Memcpy(runs, 0, BytesOf(runs, r, w))

\* The bytes of buffer_ after EnsureWritableSpace(size) took it from capacity
\* cap and positions r, w to the result e: compacted if Compact ran, resized
\* if the capacity grew.
EnsureWritableSpaceBytes(runs, r, w, e) ==
  LET moved == IF r > 0 /\ e.r = 0 THEN CompactBytes(runs, r, w) ELSE runs
  IN IF e.ok THEN Resize(moved, e.cap) ELSE moved

SBInit ==
  /\ buffer_size = INITIAL_CAPACITY
  /\ buffer_ = <<Run(0, 0, INITIAL_CAPACITY)>>
  /\ sb_pending = <<>>
  /\ read_pos_ = 0
  /\ write_pos_ = 0
  /\ sb_last = [op |-> "ctor", data |-> TRUE, size |-> 0, before |-> 0, ret |-> 0]
  /\ sb_ops = 0

\* bool SendBuffer::Write(const uint8_t* data, size_t size)
Write(data_ok, size) ==
  /\ sb_ops < MaxSbOps
  /\ sb_ops' = sb_ops + 1
  /\ IF ~data_ok \/ size = 0
       THEN /\ UNCHANGED <<buffer_size, buffer_, sb_pending, read_pos_, write_pos_>>
            /\ sb_last' = [op |-> "Write", data |-> data_ok, size |-> size,
                           before |-> Size(read_pos_, write_pos_), ret |-> 0]
       ELSE LET e == EnsureWritableSpace(buffer_size, read_pos_, write_pos_, size)
                space == EnsureWritableSpaceBytes(buffer_, read_pos_, write_pos_, e)
                data == <<Run(sb_ops + 1, 0, size)>>
            IN
            /\ buffer_size' = e.cap
            /\ buffer_' = IF e.ok THEN Memcpy(space, e.w, data) ELSE space
            /\ sb_pending' = IF e.ok THEN MergeRuns(sb_pending \o data) ELSE sb_pending
            /\ read_pos_' = e.r
            /\ write_pos_' = IF e.ok THEN e.w + size ELSE e.w
            /\ sb_last' = [op |-> "Write", data |-> data_ok, size |-> size,
                           before |-> Size(read_pos_, write_pos_),
                           ret |-> IF e.ok THEN 1 ELSE 0]

\* The bookkeeping of SendToSocket after send() returned sent > 0.
AfterSentNoReset(cap, r, w, sent) ==
  IF r + sent > cap \div 2 THEN Compact(r + sent, w) ELSE <<r + sent, w>>

AfterSent(cap, r, w, sent) ==
  IF r + sent = w THEN <<0, 0>>
  ELSE IF r + sent > cap \div 2 THEN Compact(r + sent, w)
  ELSE <<r + sent, w>>

\* ssize_t SendBuffer::SendToSocket(int fd), send() reporting `sent` bytes
SendToSocketSent(sent) ==
  /\ sb_ops < MaxSbOps
  /\ sent \in SentCounts(Size(read_pos_, write_pos_))
  /\ sb_ops' = sb_ops + 1
  /\ LET p == AfterSent(buffer_size, read_pos_, write_pos_, sent) IN
       /\ read_pos_' = p[1]
       /\ write_pos_' = p[2]
       /\ buffer_' = IF read_pos_ + sent # write_pos_
                          /\ read_pos_ + sent > buffer_size \div 2
                       THEN CompactBytes(buffer_, read_pos_ + sent, write_pos_)
                       ELSE buffer_
  /\ sb_pending' = DropRuns(sb_pending, sent)
  /\ sb_last' = [op |-> "SendToSocket", data |-> TRUE, size |-> sent,
                 before |-> Size(read_pos_, write_pos_), ret |-> sent]
  /\ UNCHANGED buffer_size

\* SendToSocket on a bad descriptor, an empty buffer, or with send() failing
SendToSocketNone(fd, outcome) ==
  /\ sb_ops < MaxSbOps
  /\ sb_ops' = sb_ops + 1
  /\ sb_last' = [op |-> "SendToSocket", data |-> TRUE, size |-> 0,
                 before |-> Size(read_pos_, write_pos_),
                 ret |-> IF fd < 0 THEN -1
                         ELSE IF Size(read_pos_, write_pos_) = 0 THEN 0
                         ELSE IF outcome \in {"EAGAIN", "EINTR", "ZERO"} THEN 0
                         ELSE -1]
  /\ UNCHANGED <<buffer_size, buffer_, sb_pending, read_pos_, write_pos_>>

\* void SendBuffer::Compact()
CompactCall ==
  /\ sb_ops < MaxSbOps
  /\ sb_ops' = sb_ops + 1
  /\ LET p == Compact(read_pos_, write_pos_) IN
       /\ read_pos_' = p[1]
       /\ write_pos_' = p[2]
  /\ buffer_' = CompactBytes(buffer_, read_pos_, write_pos_)
  /\ sb_last' = [op |-> "Compact", data |-> TRUE, size |-> 0,
                 before |-> Size(read_pos_, write_pos_), ret |-> 0]
  /\ UNCHANGED <<buffer_size, sb_pending>>

\* void SendBuffer::Clear(): the bytes not yet sent are given up
Clear ==
  /\ sb_ops < MaxSbOps
  /\ sb_ops' = sb_ops + 1
  /\ read_pos_' = 0
  /\ write_pos_' = 0
  /\ sb_pending' = <<>>
  /\ sb_last' = [op |-> "Clear", data |-> TRUE, size |-> 0,
                 before |-> Size(read_pos_, write_pos_), ret |-> 0]
  /\ UNCHANGED <<buffer_size, buffer_>>

SBWrite == \E data_ok \in BOOLEAN, size \in WriteSizes : Write(data_ok, size)
SBSend == \E sent \in SentCounts(Size(read_pos_, write_pos_)) : SendToSocketSent(sent)
SBSendNone == \E fd \in {-1, 3}, o \in SendErrnos : SendToSocketNone(fd, o)

(***************************************************************************)
(*                     ConcurrentQueue and WorkerPool                      *)
(***************************************************************************)

\* Largest worker count, number of connections and events per connection explored.
MaxWorkers == 2
NumConnections == 3
MaxEventsPerConnection == 2

PoolConnections == 1..NumConnections
NoEvent == [conn |-> 0, tag |-> 0]

\* ConcurrentQueue::Enqueue on an unlimited queue that was never stopped.
EnqueueFront(queue, value) == <<value>> \o queue

Enqueue(queue, value) == Append(queue, value)

\* The queue index SubmitEvent picks for an event.
WorkerIdByTag(event, n) == (event.conn + event.tag) % n

WorkerIdOf(event, n) == event.conn % n

\* The queue WorkerLoop(worker_id) reads.
QueueOfFirstWorker(worker_id) == 0

QueueOfWorker(worker_id) == worker_id

WPIdle ==
  /\ worker_count_ = 1
  /\ wp_is_running_ = FALSE
  /\ event_callback_ = FALSE
  /\ event_queues_ = [i \in {0} |-> <<>>]
  /\ worker_pc = [i \in {0} |-> "none"]
  /\ worker_event = [i \in {0} |-> NoEvent]
  /\ stop_pc = "idle"
  /\ next_tag = [c \in PoolConnections |-> 0]
  /\ delivered = [c \in PoolConnections |-> <<>>]
  /\ stop_seen = [c \in PoolConnections |-> 0]

\* WorkerPool::WorkerPool(worker_count) followed by SetEventCallback(callback)
WPInit ==
  /\ worker_count_ \in 1..MaxWorkers
  /\ wp_is_running_ = FALSE
  /\ event_callback_ = TRUE
  /\ event_queues_ = [i \in 0..(worker_count_ - 1) |-> <<>>]
  /\ worker_pc = [i \in 0..(worker_count_ - 1) |-> "none"]
  /\ worker_event = [i \in 0..(worker_count_ - 1) |-> NoEvent]
  /\ stop_pc = "idle"
  /\ next_tag = [c \in PoolConnections |-> 0]
  /\ delivered = [c \in PoolConnections |-> <<>>]
  /\ stop_seen = [c \in PoolConnections |-> 0]

Workers == DOMAIN worker_pc

\* bool WorkerPool::Start()
Start ==
  /\ stop_pc \in {"idle", "returned"}
  /\ ~wp_is_running_
  /\ wp_is_running_' = TRUE
  /\ worker_pc' = [i \in Workers |-> "loop"]
  /\ stop_pc' = "idle"
  /\ UNCHANGED <<worker_count_, event_callback_, event_queues_, worker_event,
                 next_tag, delivered>>

\* void WorkerPool::Stop(): clears is_running_, then waits in join()
StopBegin ==
  /\ stop_pc = "idle"
  /\ wp_is_running_
  /\ wp_is_running_' = FALSE
  /\ stop_pc' = "joining"
  /\ stop_seen' = next_tag
  /\ UNCHANGED <<worker_count_, event_callback_, event_queues_, worker_pc,
                 worker_event, next_tag, delivered>>

\* void WorkerPool::Stop() on a pool that is not running: returns at once
StopNotRunning ==
  /\ stop_pc \in {"idle", "returned"}
  /\ ~wp_is_running_
  /\ stop_pc' = "returned"
  /\ stop_seen' = next_tag
  /\ UNCHANGED <<worker_count_, wp_is_running_, event_callback_, event_queues_,
                 worker_pc, worker_event, next_tag, delivered>>

\* Stop(): every join() has returned, worker_threads_.clear(), return
StopJoined ==
  /\ stop_pc = "joining"
  /\ \A i \in Workers : worker_pc[i] = "exited"
  /\ worker_pc' = [i \in Workers |-> "none"]
  /\ stop_pc' = "returned"
  /\ UNCHANGED <<worker_count_, wp_is_running_, event_callback_, event_queues_,
                 worker_event, next_tag, delivered>>

\* void WorkerPool::SubmitEvent(event), from any thread, at any time
SubmitEvent(c) ==
  /\ next_tag[c] < MaxEventsPerConnection
  /\ LET event == [conn |-> c, tag |-> next_tag[c] + 1]
         worker_id == WorkerIdOf(event, worker_count_)
     IN event_queues_' =
          [event_queues_ EXCEPT ![worker_id] = Enqueue(@, event)]
  /\ next_tag' = [next_tag EXCEPT ![c] = @ + 1]
  /\ UNCHANGED <<worker_count_, wp_is_running_, event_callback_, worker_pc,
                 worker_event, stop_pc, delivered>>

\* WorkerLoop: one pass of `while (is_running_)` up to TryDequeue's return
WorkerPoll(i) ==
  /\ worker_pc[i] = "loop"
  /\ LET q == QueueOfWorker(i) IN
     IF ~wp_is_running_
       THEN /\ worker_pc' = [worker_pc EXCEPT ![i] = "drain"]
            /\ UNCHANGED <<event_queues_, worker_event>>
     ELSE IF event_queues_[q] = <<>>
       THEN UNCHANGED <<worker_pc, event_queues_, worker_event>>
     ELSE /\ worker_event' = [worker_event EXCEPT ![i] = Head(event_queues_[q])]
          /\ event_queues_' = [event_queues_ EXCEPT ![q] = Tail(@)]
          /\ worker_pc' = [worker_pc EXCEPT ![i] = "callback"]
  /\ UNCHANGED <<worker_count_, wp_is_running_, event_callback_, stop_pc,
                 next_tag, delivered>>

\* WorkerLoop: `if (event_callback_) event_callback_(event)` in either loop
WorkerCallback(i) ==
  /\ worker_pc[i] \in {"callback", "drain_callback"}
  /\ delivered' =
       IF event_callback_
         THEN [delivered EXCEPT ![worker_event[i].conn] =
                 Append(@, worker_event[i].tag)]
         ELSE delivered
  /\ worker_pc' = [worker_pc EXCEPT
                     ![i] = IF @ = "callback" THEN "loop" ELSE "drain"]
  /\ worker_event' = [worker_event EXCEPT ![i] = NoEvent]
  /\ UNCHANGED <<worker_count_, wp_is_running_, event_callback_, event_queues_,
                 stop_pc, next_tag>>

\* WorkerLoop: `while (queue->TryDequeue(remaining_event))` after the main loop
WorkerDrain(i) ==
  /\ worker_pc[i] = "drain"
  /\ LET q == QueueOfWorker(i) IN
     IF event_queues_[q] = <<>>
       THEN /\ worker_pc' = [worker_pc EXCEPT ![i] = "exited"]
            /\ UNCHANGED <<event_queues_, worker_event>>
       ELSE /\ worker_event' = [worker_event EXCEPT ![i] = Head(event_queues_[q])]
            /\ event_queues_' = [event_queues_ EXCEPT ![q] = Tail(@)]
            /\ worker_pc' = [worker_pc EXCEPT ![i] = "drain_callback"]
  /\ UNCHANGED <<worker_count_, wp_is_running_, event_callback_, stop_pc,
                 next_tag, delivered>>

WPSubmit == \E c \in PoolConnections : SubmitEvent(c)
WPPoll == \E i \in Workers : WorkerPoll(i)
WPCallback == \E i \in Workers : WorkerCallback(i)
WPDrain == \E i \in Workers : WorkerDrain(i)

(***************************************************************************)
(*                                Reactor                                  *)
(* The reactor hands its events to WorkerPool::SubmitEvent (or to the      *)
(* direct callback); `events` records them per connection in that order.   *)
(* reactor_id_ is 0, so a connection_id equals its local id.               *)
(***************************************************************************)

\* Number of connection ids one run assigns, and of data chunks a peer sends.
MaxConnections == 2
MaxData == 1

Fds == {3, 4}
Callers == {"t1"}
ConnIds == 1..MaxConnections
\* 0 stands for whatever a read through a dangling reference yields.
GarbageId == 0
NoConn == [fd |-> -1, id |-> 0]
ClosedSock == [open |-> FALSE, pending |-> 0, budget |-> 0,
               peer_closed |-> FALSE, err |-> FALSE]
FreshSock == [open |-> TRUE, pending |-> 0, budget |-> MaxData,
              peer_closed |-> FALSE, err |-> FALSE]

MapPut(f, k, v) == [x \in DOMAIN f \cup {k} |-> IF x = k THEN v ELSE f[x]]
MapErase(f, k) == [x \in DOMAIN f \ {k} |-> f[x]]
EmptyMap == [x \in {} |-> 0]

RInit ==
  /\ r_is_running_ = FALSE
  /\ next_connection_id_ = 1
  /\ connections_ = EmptyMap
  /\ fd_to_connection_id_ = EmptyMap
  /\ monitored = {}
  /\ sock = [fd \in Fds |-> ClosedSock]
  /\ events = [id \in {GarbageId} \cup ConnIds |-> <<>>]
  /\ loop_pc = "none"
  /\ loop_batch = <<>>
  /\ loop_conn = NoConn
  /\ caller_pc = [t \in Callers |-> "idle"]
  /\ caller_conn = [t \in Callers |-> NoConn]
  /\ removed = {}

\* worker_pool_->SubmitEvent(event) / event_callback_(event)
Submit(ev, type, id) == [ev EXCEPT ![id] = Append(@, type)]

\* close(fd): the kernel also drops a closed descriptor from the monitor
CloseFd(s, fd) == [s EXCEPT ![fd] = ClosedSock]

\* What `conn.connection_id` yields when read through a reference into
\* connections_: the id, or anything once the element has been erased.
ReadConnectionId(id) ==
  IF id \in DOMAIN connections_ THEN {id} ELSE {id, GarbageId}

\* bool Reactor::RemoveConnection(connection_id): the state it leaves
RemoveConnectionKeepFd(id) ==
  IF id \notin DOMAIN connections_
    THEN [conns |-> connections_, fds |-> fd_to_connection_id_,
          mon |-> monitored, sock |-> sock]
    ELSE LET fd == connections_[id] IN
         [conns |-> MapErase(connections_, id),
          fds |-> fd_to_connection_id_,
          mon |-> monitored \ {fd},
          sock |-> CloseFd(sock, fd)]

RemoveConnection(id) ==
  IF id \notin DOMAIN connections_
    THEN [conns |-> connections_, fds |-> fd_to_connection_id_,
          mon |-> monitored, sock |-> sock]
    ELSE LET fd == connections_[id] IN
         [conns |-> MapErase(connections_, id),
          fds |-> MapErase(fd_to_connection_id_, fd),
          mon |-> monitored \ {fd},
          sock |-> CloseFd(sock, fd)]

\* Reactor::HandleConnectionClose / HandleConnectionError: submit the terminal
\* event for the id read from `conn`, then RemoveConnection(that id)
HandleConnectionEnd(type, id) ==
  LET rm == RemoveConnection(id) IN
  /\ events' = Submit(events, type, id)
  /\ connections_' = rm.conns
  /\ fd_to_connection_id_' = rm.fds
  /\ monitored' = rm.mon
  /\ sock' = rm.sock

\* bool Reactor::Start()
ReactorStart ==
  /\ ~r_is_running_
  /\ loop_pc = "none"
  /\ \A t \in Callers : caller_pc[t] # "stop_join"
  /\ r_is_running_' = TRUE
  /\ loop_pc' = "wait"
  /\ UNCHANGED <<next_connection_id_, connections_, fd_to_connection_id_,
                 monitored, sock, events, loop_batch, loop_conn,
                 caller_pc, caller_conn>>

\* void Reactor::Stop(): clears is_running_, then waits in join()
ReactorStopBegin(t) ==
  /\ caller_pc[t] = "idle"
  /\ r_is_running_
  /\ r_is_running_' = FALSE
  /\ caller_pc' = [caller_pc EXCEPT ![t] = "stop_join"]
  /\ UNCHANGED <<next_connection_id_, connections_, fd_to_connection_id_,
                 monitored, sock, events, loop_pc, loop_batch, loop_conn,
                 caller_conn>>

\* Stop(): join() returned; close every fd of fd_to_connection_id_, clear the maps
ReactorStopJoined(t) ==
  /\ caller_pc[t] = "stop_join"
  /\ loop_pc = "done"
  /\ loop_pc' = "none"
  /\ sock' = [fd \in Fds |->
                IF fd \in DOMAIN fd_to_connection_id_ THEN ClosedSock ELSE sock[fd]]
  /\ monitored' = monitored \ DOMAIN fd_to_connection_id_
  /\ connections_' = EmptyMap
  /\ fd_to_connection_id_' = EmptyMap
  /\ caller_pc' = [caller_pc EXCEPT ![t] = "idle"]
  /\ UNCHANGED <<r_is_running_, next_connection_id_, events, loop_batch,
                 loop_conn, caller_conn>>

\* uint64_t Reactor::AddConnection(fd, peer), for a descriptor accept/connect
\* just returned: the checks, the id, StartReadMonitor (lines 86-100)
AddConnectionBegin(t, fd, monitor_ok) ==
  /\ caller_pc[t] = "idle"
  /\ ~sock[fd].open
  /\ next_connection_id_ <= MaxConnections
  /\ IF ~r_is_running_
       THEN /\ sock' = [sock EXCEPT ![fd] = FreshSock]
            /\ UNCHANGED <<next_connection_id_, monitored, caller_pc, caller_conn>>
       ELSE /\ next_connection_id_' = next_connection_id_ + 1
            /\ IF monitor_ok
                 THEN /\ sock' = [sock EXCEPT ![fd] = FreshSock]
                      /\ monitored' = monitored \cup {fd}
                      /\ caller_pc' = [caller_pc EXCEPT ![t] = "add_maps"]
                      /\ caller_conn' = [caller_conn EXCEPT
                                           ![t] = [fd |-> fd, id |-> next_connection_id_]]
                 ELSE UNCHANGED <<sock, monitored, caller_pc, caller_conn>>
  /\ UNCHANGED <<r_is_running_, connections_, fd_to_connection_id_, events,
                 loop_pc, loop_batch, loop_conn>>

\* AddConnection: connections_[id] = conn; fd_to_connection_id_[fd] = id
AddConnectionMaps(t) ==
  /\ caller_pc[t] = "add_maps"
  /\ connections_' = MapPut(connections_, caller_conn[t].id, caller_conn[t].fd)
  /\ fd_to_connection_id_' =
       MapPut(fd_to_connection_id_, caller_conn[t].fd, caller_conn[t].id)
  /\ caller_pc' = [caller_pc EXCEPT ![t] = "add_submit"]
  /\ UNCHANGED <<r_is_running_, next_connection_id_, monitored, sock, events,
                 loop_pc, loop_batch, loop_conn, caller_conn>>

\* AddConnection: submit the kConnected event, return connection_id
AddConnectionSubmit(t) ==
  /\ caller_pc[t] = "add_submit"
  /\ events' = Submit(events, "Connected", caller_conn[t].id)
  /\ caller_pc' = [caller_pc EXCEPT ![t] = "idle"]
  /\ caller_conn' = [caller_conn EXCEPT ![t] = NoConn]
  /\ UNCHANGED <<r_is_running_, next_connection_id_, connections_,
                 fd_to_connection_id_, monitored, sock, loop_pc, loop_batch,
                 loop_conn>>

\* bool Reactor::RemoveConnection(connection_id), called by the owner
RemoveConnectionCall(t, id) ==
  /\ caller_pc[t] = "idle"
  /\ removed' = IF id \in DOMAIN connections_ THEN removed \cup {id} ELSE removed
  /\ LET rm == RemoveConnection(id) IN
       /\ connections_' = rm.conns
       /\ fd_to_connection_id_' = rm.fds
       /\ monitored' = rm.mon
       /\ sock' = rm.sock
  /\ UNCHANGED <<r_is_running_, next_connection_id_, events, loop_pc,
                 loop_batch, loop_conn, caller_pc, caller_conn>>

\* bool Reactor::SendData(connection_id, data, size): connections_.find
SendDataBegin(t, id) ==
  /\ caller_pc[t] = "idle"
  /\ id \in DOMAIN connections_
  /\ caller_pc' = [caller_pc EXCEPT ![t] = "sending"]
  /\ caller_conn' = [caller_conn EXCEPT ![t] = [fd |-> connections_[id], id |-> id]]
  /\ UNCHANGED <<r_is_running_, next_connection_id_, connections_,
                 fd_to_connection_id_, monitored, sock, events, loop_pc,
                 loop_batch, loop_conn>>

\* Results of send(fd, ...) on the socket: everything sent, part of it,
\* EAGAIN/EWOULDBLOCK, or another errno
SendResults(s) ==
  IF ~s.open THEN {"error"}
  ELSE IF s.err \/ s.peer_closed THEN {"error"}
  ELSE {"all", "partial", "EAGAIN"}

\* SendData: one pass of `while (sent < size)`
SendDataStep(t, result, id_read) ==
  /\ caller_pc[t] = "sending"
  /\ result \in SendResults(sock[caller_conn[t].fd])
  /\ IF result \in {"partial", "EAGAIN"}
       THEN UNCHANGED <<connections_, fd_to_connection_id_, monitored, sock,
                        events, caller_pc, caller_conn>>
     ELSE IF result = "all"
       THEN /\ caller_pc' = [caller_pc EXCEPT ![t] = "idle"]
            /\ caller_conn' = [caller_conn EXCEPT ![t] = NoConn]
            /\ UNCHANGED <<connections_, fd_to_connection_id_, monitored, sock,
                           events>>
     ELSE /\ id_read \in ReadConnectionId(caller_conn[t].id)
          /\ HandleConnectionEnd("Error", id_read)
          /\ caller_pc' = [caller_pc EXCEPT ![t] = "idle"]
          /\ caller_conn' = [caller_conn EXCEPT ![t] = NoConn]
  /\ UNCHANGED <<r_is_running_, next_connection_id_, loop_pc, loop_batch,
                 loop_conn>>

\* Descriptors WaitEvents can report
ReadyFds ==
  {fd \in monitored :
     sock[fd].open /\ (sock[fd].pending > 0 \/ sock[fd].peer_closed \/ sock[fd].err)}

\* The EV_EOF / EPOLLHUP flag a reported event may carry
EofFlags(fd) ==
  IF sock[fd].peer_closed \/ sock[fd].err THEN {TRUE, FALSE} ELSE {FALSE}

\* RunEventLoop: `while (is_running_)` and WaitEvents
LoopWait(result, batch) ==
  /\ loop_pc = "wait"
  /\ IF ~r_is_running_
       THEN /\ loop_pc' = "done"
            /\ UNCHANGED loop_batch
     ELSE
       \/ /\ result = "EINTR"
          /\ batch = <<>>
          /\ UNCHANGED <<loop_pc, loop_batch>>
       \/ /\ result = "error"
          /\ batch = <<>>
          /\ loop_pc' = "done"
          /\ UNCHANGED loop_batch
       \/ /\ result = "events"
          /\ loop_batch' = batch
          /\ loop_pc' = IF batch = <<>> THEN "wait" ELSE "dispatch"
  /\ UNCHANGED <<r_is_running_, next_connection_id_, connections_,
                 fd_to_connection_id_, monitored, sock, events, loop_conn,
                 caller_pc, caller_conn>>

\* Batches WaitEvents may return: ready descriptors in ascending order
Batches ==
  {<<>>}
  \cup {<<[fd |-> fd, eof |-> e]>> : fd \in ReadyFds, e \in BOOLEAN}
  \cup {<<[fd |-> 3, eof |-> e1], [fd |-> 4, eof |-> e2]>> : e1 \in BOOLEAN, e2 \in BOOLEAN}

BatchOk(batch) ==
  /\ \A i \in 1..Len(batch) :
       batch[i].fd \in ReadyFds /\ batch[i].eof \in EofFlags(batch[i].fd)

\* RunEventLoop: one pass of `for (i < count)`, up to the call of
\* HandleConnectionClose or HandleReadEvent (lines 218-255, 261-276)
LoopDispatch ==
  /\ loop_pc = "dispatch"
  /\ IF loop_batch = <<>>
       THEN /\ loop_pc' = "wait"
            /\ UNCHANGED <<loop_batch, loop_conn, connections_,
                           fd_to_connection_id_, monitored, sock, events>>
     ELSE
       LET ev == Head(loop_batch) IN
       /\ loop_batch' = Tail(loop_batch)
       /\ IF \/ ev.fd \notin DOMAIN fd_to_connection_id_
             \/ fd_to_connection_id_[ev.fd] \notin DOMAIN connections_
            THEN UNCHANGED <<loop_pc, loop_conn, connections_,
                             fd_to_connection_id_, monitored, sock, events>>
          ELSE IF ev.eof
            THEN /\ HandleConnectionEnd("Disconnected", fd_to_connection_id_[ev.fd])
                 /\ UNCHANGED <<loop_pc, loop_conn>>
          ELSE /\ loop_pc' = "read"
               /\ loop_conn' = [fd |-> ev.fd, id |-> fd_to_connection_id_[ev.fd]]
               /\ UNCHANGED <<connections_, fd_to_connection_id_, monitored,
                              sock, events>>
  /\ UNCHANGED <<r_is_running_, next_connection_id_, caller_pc, caller_conn>>

\* Results of recv(fd, buffer, sizeof(buffer), 0)
RecvResults(s) ==
  IF ~s.open THEN {"error"}
  ELSE IF s.err THEN {"error"}
  ELSE IF s.pending > 0 THEN {"data", "EINTR"}
  ELSE IF s.peer_closed THEN {"zero", "EINTR"}
  ELSE {"EAGAIN", "EINTR"}

\* HandleReadEvent: one pass of `while (true)` around recv
LoopRead(result, id_read) ==
  /\ loop_pc = "read"
  /\ result \in RecvResults(sock[loop_conn.fd])
  /\ IF result = "data"
       THEN /\ events' = Submit(events, "Data", loop_conn.id)
            /\ sock' = [sock EXCEPT ![loop_conn.fd].pending = @ - 1]
            /\ UNCHANGED <<loop_pc, loop_conn, connections_,
                           fd_to_connection_id_, monitored>>
     ELSE IF result = "EAGAIN"
       THEN /\ loop_pc' = "dispatch"
            /\ loop_conn' = NoConn
            /\ UNCHANGED <<connections_, fd_to_connection_id_, monitored, sock,
                           events>>
     ELSE /\ id_read \in ReadConnectionId(loop_conn.id)
          /\ HandleConnectionEnd(IF result = "zero" THEN "Disconnected" ELSE "Error",
                                 id_read)
          /\ loop_pc' = "dispatch"
          /\ loop_conn' = NoConn
  /\ UNCHANGED <<r_is_running_, next_connection_id_, loop_batch, caller_pc,
                 caller_conn>>

\* The peer writes a chunk, closes its end, or resets the connection
PeerSend(fd) ==
  /\ sock[fd].open /\ ~sock[fd].peer_closed /\ ~sock[fd].err
  /\ sock[fd].budget > 0
  /\ sock' = [sock EXCEPT ![fd].pending = @ + 1, ![fd].budget = @ - 1]
  /\ UNCHANGED <<r_is_running_, next_connection_id_, connections_,
                 fd_to_connection_id_, monitored, events, loop_pc, loop_batch,
                 loop_conn, caller_pc, caller_conn>>

PeerClose(fd, reset) ==
  /\ sock[fd].open /\ ~sock[fd].peer_closed /\ ~sock[fd].err
  /\ sock' = IF reset THEN [sock EXCEPT ![fd].err = TRUE]
                      ELSE [sock EXCEPT ![fd].peer_closed = TRUE]
  /\ UNCHANGED <<r_is_running_, next_connection_id_, connections_,
                 fd_to_connection_id_, monitored, events, loop_pc, loop_batch,
                 loop_conn, caller_pc, caller_conn>>

RStop == \E t \in Callers : ReactorStopBegin(t)
RStopJoined == \E t \in Callers : ReactorStopJoined(t)
RAdd == \E t \in Callers, fd \in Fds, ok \in BOOLEAN : AddConnectionBegin(t, fd, ok)
RAddMaps == \E t \in Callers : AddConnectionMaps(t)
RAddSubmit == \E t \in Callers : AddConnectionSubmit(t)
RRemove == \E t \in Callers, id \in ConnIds : RemoveConnectionCall(t, id)
RSend == \E t \in Callers, id \in ConnIds : SendDataBegin(t, id)
RSendStep ==
  \E t \in Callers, r \in {"all", "partial", "EAGAIN", "error"},
     id \in {GarbageId} \cup ConnIds : SendDataStep(t, r, id)
RLoopWait ==
  \E r \in {"EINTR", "error", "events"}, b \in Batches :
    BatchOk(b) /\ LoopWait(r, b)
RLoopRead ==
  \E r \in {"data", "zero", "EAGAIN", "EINTR", "error"},
     id \in {GarbageId} \cup ConnIds : LoopRead(r, id)
RPeerSend == \E fd \in Fds : PeerSend(fd)
RPeerClose == \E fd \in Fds, reset \in BOOLEAN : PeerClose(fd, reset)

(***************************************************************************)
(*                      Frame codec (namespace proto)                      *)
(* A byte is a number in 0..255 and a buffer a sequence of bytes.  Integer *)
(* fields are kept as the little-endian byte sequences memcpy leaves in    *)
(* the buffer; a uint32_t CRC is the sequence of its four bytes.           *)
(***************************************************************************)

MAGIC1 == 90
MAGIC2 == 92
VERSION == 1
FLAG_CRC32 == 1
MAX_MESSAGE_SLICES == 65535
FrameHeaderSize == 16
MessageHeaderSize == 12
StreamChunkPayloadSize == 16
\* 262144 in configuration.h; scaled down so that messages of a few bytes are
\* split into several slices.
MAX_FRAME_PAYLOAD == 17

FrameTypeMessage == 1
FrameTypeStreamStart == 2
FrameTypeStreamChunk == 3
FrameTypeStreamEnd == 4

\* a ^ b for two numbers below 2^n
RECURSIVE XorBits(_, _, _)
XorBits(a, b, n) ==
  IF n = 0 THEN 0
  ELSE ((a + b) % 2) + 2 * XorBits(a \div 2, b \div 2, n - 1)

XorNibble == [a \in 0..15 |-> [b \in 0..15 |-> XorBits(a, b, 4)]]

\* a ^ b for two bytes
XorByte(a, b) ==
  XorNibble[a % 16][b % 16] + 16 * XorNibble[a \div 16][b \div 16]

\* The table of CalculateCRC32, each entry as its four bytes, low byte first.
CRC_TABLE ==
  <<
  <<0, 0, 0, 0>>, <<150, 48, 7, 119>>, <<44, 97, 14, 238>>, <<186, 81, 9, 153>>,
  <<25, 196, 109, 7>>, <<143, 244, 106, 112>>, <<53, 165, 99, 233>>, <<163, 149, 100, 158>>,
  <<50, 136, 219, 14>>, <<164, 184, 220, 121>>, <<30, 233, 213, 224>>, <<136, 217, 210, 151>>,
  <<43, 76, 182, 9>>, <<189, 124, 177, 126>>, <<7, 45, 184, 231>>, <<145, 29, 191, 144>>,
  <<100, 16, 183, 29>>, <<242, 32, 176, 106>>, <<72, 113, 185, 243>>, <<222, 65, 190, 132>>,
  <<125, 212, 218, 26>>, <<235, 228, 221, 109>>, <<81, 181, 212, 244>>, <<199, 133, 211, 131>>,
  <<86, 152, 108, 19>>, <<192, 168, 107, 100>>, <<122, 249, 98, 253>>, <<236, 201, 101, 138>>,
  <<79, 92, 1, 20>>, <<217, 108, 6, 99>>, <<99, 61, 15, 250>>, <<245, 13, 8, 141>>,
  <<200, 32, 110, 59>>, <<94, 16, 105, 76>>, <<228, 65, 96, 213>>, <<114, 113, 103, 162>>,
  <<209, 228, 3, 60>>, <<71, 212, 4, 75>>, <<253, 133, 13, 210>>, <<107, 181, 10, 165>>,
  <<250, 168, 181, 53>>, <<108, 152, 178, 66>>, <<214, 201, 187, 219>>, <<64, 249, 188, 172>>,
  <<227, 108, 216, 50>>, <<117, 92, 223, 69>>, <<207, 13, 214, 220>>, <<89, 61, 209, 171>>,
  <<172, 48, 217, 38>>, <<58, 0, 222, 81>>, <<128, 81, 215, 200>>, <<22, 97, 208, 191>>,
  <<181, 244, 180, 33>>, <<35, 196, 179, 86>>, <<153, 149, 186, 207>>, <<15, 165, 189, 184>>,
  <<158, 184, 2, 40>>, <<8, 136, 5, 95>>, <<178, 217, 12, 198>>, <<36, 233, 11, 177>>,
  <<135, 124, 111, 47>>, <<17, 76, 104, 88>>, <<171, 29, 97, 193>>, <<61, 45, 102, 182>>,
  <<144, 65, 220, 118>>, <<6, 113, 219, 1>>, <<188, 32, 210, 152>>, <<42, 16, 213, 239>>,
  <<137, 133, 177, 113>>, <<31, 181, 182, 6>>, <<165, 228, 191, 159>>, <<51, 212, 184, 232>>,
  <<162, 201, 7, 120>>, <<52, 249, 0, 15>>, <<142, 168, 9, 150>>, <<24, 152, 14, 225>>,
  <<187, 13, 106, 127>>, <<45, 61, 109, 8>>, <<151, 108, 100, 145>>, <<1, 92, 99, 230>>,
  <<244, 81, 107, 107>>, <<98, 97, 108, 28>>, <<216, 48, 101, 133>>, <<78, 0, 98, 242>>,
  <<237, 149, 6, 108>>, <<123, 165, 1, 27>>, <<193, 244, 8, 130>>, <<87, 196, 15, 245>>,
  <<198, 217, 176, 101>>, <<80, 233, 183, 18>>, <<234, 184, 190, 139>>, <<124, 136, 185, 252>>,
  <<223, 29, 221, 98>>, <<73, 45, 218, 21>>, <<243, 124, 211, 140>>, <<101, 76, 212, 251>>,
  <<88, 97, 178, 77>>, <<206, 81, 181, 58>>, <<116, 0, 188, 163>>, <<226, 48, 187, 212>>,
  <<65, 165, 223, 74>>, <<215, 149, 216, 61>>, <<109, 196, 209, 164>>, <<251, 244, 214, 211>>,
  <<106, 233, 105, 67>>, <<252, 217, 110, 52>>, <<70, 136, 103, 173>>, <<208, 184, 96, 218>>,
  <<115, 45, 4, 68>>, <<229, 29, 3, 51>>, <<95, 76, 10, 170>>, <<201, 124, 13, 221>>,
  <<60, 113, 5, 80>>, <<170, 65, 2, 39>>, <<16, 16, 11, 190>>, <<134, 32, 12, 201>>,
  <<37, 181, 104, 87>>, <<179, 133, 111, 32>>, <<9, 212, 102, 185>>, <<159, 228, 97, 206>>,
  <<14, 249, 222, 94>>, <<152, 201, 217, 41>>, <<34, 152, 208, 176>>, <<180, 168, 215, 199>>,
  <<23, 61, 179, 89>>, <<129, 13, 180, 46>>, <<59, 92, 189, 183>>, <<173, 108, 186, 192>>,
  <<32, 131, 184, 237>>, <<182, 179, 191, 154>>, <<12, 226, 182, 3>>, <<154, 210, 177, 116>>,
  <<57, 71, 213, 234>>, <<175, 119, 210, 157>>, <<21, 38, 219, 4>>, <<131, 22, 220, 115>>,
  <<18, 11, 99, 227>>, <<132, 59, 100, 148>>, <<62, 106, 109, 13>>, <<168, 90, 106, 122>>,
  <<11, 207, 14, 228>>, <<157, 255, 9, 147>>, <<39, 174, 0, 10>>, <<177, 158, 7, 125>>,
  <<68, 147, 15, 240>>, <<210, 163, 8, 135>>, <<104, 242, 1, 30>>, <<254, 194, 6, 105>>,
  <<93, 87, 98, 247>>, <<203, 103, 101, 128>>, <<113, 54, 108, 25>>, <<231, 6, 107, 110>>,
  <<118, 27, 212, 254>>, <<224, 43, 211, 137>>, <<90, 122, 218, 16>>, <<204, 74, 221, 103>>,
  <<111, 223, 185, 249>>, <<249, 239, 190, 142>>, <<67, 190, 183, 23>>, <<213, 142, 176, 96>>,
  <<232, 163, 214, 214>>, <<126, 147, 209, 161>>, <<196, 194, 216, 56>>, <<82, 242, 223, 79>>,
  <<241, 103, 187, 209>>, <<103, 87, 188, 166>>, <<221, 6, 181, 63>>, <<75, 54, 178, 72>>,
  <<218, 43, 13, 216>>, <<76, 27, 10, 175>>, <<246, 74, 3, 54>>, <<96, 122, 4, 65>>,
  <<195, 239, 96, 223>>, <<85, 223, 103, 168>>, <<239, 142, 110, 49>>, <<121, 190, 105, 70>>,
  <<140, 179, 97, 203>>, <<26, 131, 102, 188>>, <<160, 210, 111, 37>>, <<54, 226, 104, 82>>,
  <<149, 119, 12, 204>>, <<3, 71, 11, 187>>, <<185, 22, 2, 34>>, <<47, 38, 5, 85>>,
  <<190, 59, 186, 197>>, <<40, 11, 189, 178>>, <<146, 90, 180, 43>>, <<4, 106, 179, 92>>,
  <<167, 255, 215, 194>>, <<49, 207, 208, 181>>, <<139, 158, 217, 44>>, <<29, 174, 222, 91>>,
  <<176, 194, 100, 155>>, <<38, 242, 99, 236>>, <<156, 163, 106, 117>>, <<10, 147, 109, 2>>,
  <<169, 6, 9, 156>>, <<63, 54, 14, 235>>, <<133, 103, 7, 114>>, <<19, 87, 0, 5>>,
  <<130, 74, 191, 149>>, <<20, 122, 184, 226>>, <<174, 43, 177, 123>>, <<56, 27, 182, 12>>,
  <<155, 142, 210, 146>>, <<13, 190, 213, 229>>, <<183, 239, 220, 124>>, <<33, 223, 219, 11>>,
  <<212, 210, 211, 134>>, <<66, 226, 212, 241>>, <<248, 179, 221, 104>>, <<110, 131, 218, 31>>,
  <<205, 22, 190, 129>>, <<91, 38, 185, 246>>, <<225, 119, 176, 111>>, <<119, 71, 183, 24>>,
  <<230, 90, 8, 136>>, <<112, 106, 15, 255>>, <<202, 59, 6, 102>>, <<92, 11, 1, 17>>,
  <<255, 158, 101, 143>>, <<105, 174, 98, 248>>, <<211, 255, 107, 97>>, <<69, 207, 108, 22>>,
  <<120, 226, 10, 160>>, <<238, 210, 13, 215>>, <<84, 131, 4, 78>>, <<194, 179, 3, 57>>,
  <<97, 38, 103, 167>>, <<247, 22, 96, 208>>, <<77, 71, 105, 73>>, <<219, 119, 110, 62>>,
  <<74, 106, 209, 174>>, <<220, 90, 214, 217>>, <<102, 11, 223, 64>>, <<240, 59, 216, 55>>,
  <<83, 174, 188, 169>>, <<197, 158, 187, 222>>, <<127, 207, 178, 71>>, <<233, 255, 181, 48>>,
  <<28, 242, 189, 189>>, <<138, 194, 186, 202>>, <<48, 147, 179, 83>>, <<166, 163, 180, 36>>,
  <<5, 54, 208, 186>>, <<147, 6, 215, 205>>, <<41, 87, 222, 84>>, <<191, 103, 217, 35>>,
  <<46, 122, 102, 179>>, <<184, 74, 97, 196>>, <<2, 27, 104, 93>>, <<148, 43, 111, 42>>,
  <<55, 190, 11, 180>>, <<161, 142, 12, 195>>, <<27, 223, 5, 90>>, <<141, 239, 2, 45>>
  >>

\* One pass of the loop of CalculateCRC32:
\*   crc = CRC_TABLE[(crc ^ data[i]) & 0xFF] ^ (crc >> 8)
Crc32Step(crc, byte) ==
  LET t == CRC_TABLE[XorByte(crc[1], byte) + 1] IN
  <<XorByte(t[1], crc[2]), XorByte(t[2], crc[3]), XorByte(t[3], crc[4]), t[4]>>

RECURSIVE Crc32Loop(_, _, _)
Crc32Loop(crc, data, i) ==
  IF i > Len(data) THEN crc
  ELSE LET next == Crc32Step(crc, data[i]) IN
       \* the comparison has TLC compute the value of this pass before the
       \* following pass starts
       IF next = <<>> THEN next ELSE Crc32Loop(next, data, i + 1)

\* A checksum that ignores the data.
ConstantCRC32(data) == <<0, 0, 0, 0>>

\* uint32_t CalculateCRC32(data, len)
CalculateCRC32(data) ==
  LET crc == Crc32Loop(<<255, 255, 255, 255>>, data, 1) IN
  <<255 - crc[1], 255 - crc[2], 255 - crc[3], 255 - crc[4]>>

\* The n bytes of the unsigned integer v in memory, low byte first.
RECURSIVE LittleEndian(_, _)
LittleEndian(v, n) ==
  IF n = 0 THEN <<>> ELSE <<v % 256>> \o LittleEndian(v \div 256, n - 1)

\* A uint16_t read from two bytes.
U16(bytes) == bytes[1] + 256 * bytes[2]

\* A uint32_t read from four bytes; values of 2^31 and more are all read as
\* 2^31 - 1, which is above every limit they are compared with.
U32(bytes) ==
  IF bytes[4] >= 128 THEN 2147483647
  ELSE bytes[1] + 256 * bytes[2] + 65536 * bytes[3] + 16777216 * bytes[4]

Slice(s, from, to) == SubSeq(s, from, to)
Min(a, b) == IF a < b THEN a ELSE b

RECURSIVE Concat(_)
Concat(seqs) == IF seqs = <<>> THEN <<>> ELSE Head(seqs) \o Concat(Tail(seqs))

\* Frame Encoder::MakeFrame(type, payload, len, crc)
MakeFrame(type, payload, crc) ==
  IF Len(payload) > MAX_FRAME_PAYLOAD
    THEN [thrown |-> "payload too large"]
    ELSE LET body == IF crc THEN payload \o CalculateCRC32(payload) ELSE payload IN
         [thrown |-> "", type |-> type, flags |-> IF crc THEN FLAG_CRC32 ELSE 0,
          payload_len |-> Len(body), payload |-> body]

\* std::vector<uint8_t> Frame::Serialize()
Serialize(f) ==
  <<MAGIC1, MAGIC2, VERSION, f.type>> \o LittleEndian(f.flags, 2)
    \o LittleEndian(f.payload_len, 4) \o LittleEndian(0, 4) \o LittleEndian(0, 2)
    \o f.payload

\* The payload of slice i of EncodeMessage: MessageHeader, then the chunk
MessageSlicePayload(message_id, total, i, data, slice_payload) ==
  LET offset == i * slice_payload
      chunk == Min(slice_payload, Len(data) - offset)
  IN LittleEndian(message_id, 8) \o LittleEndian(total, 2) \o LittleEndian(i, 2)
       \o Slice(data, offset + 1, offset + chunk)

\* std::vector<Frame> Encoder::EncodeMessage(message_id, data, length, enable_crc)
EncodeMessage(message_id, data, enable_crc) ==
  LET slice_payload ==
        MAX_FRAME_PAYLOAD - MessageHeaderSize - (IF enable_crc THEN 4 ELSE 0)
      total == ((Len(data) + slice_payload - 1) \div slice_payload) % 65536
  IN IF total = 0 \/ total > MAX_MESSAGE_SLICES
       THEN [thrown |-> "message too large", frames |-> <<>>]
       ELSE [thrown |-> "",
             frames |-> [i \in 1..total |->
                           MakeFrame(FrameTypeMessage,
                                     MessageSlicePayload(message_id, total, i - 1,
                                                         data, slice_payload),
                                     enable_crc)]]

\* Encoder::EncodeStreamStart / EncodeStreamChunk / EncodeStreamEnd
EncodeStreamStart(stream_id, total_size) ==
  MakeFrame(FrameTypeStreamStart,
            LittleEndian(stream_id, 8) \o LittleEndian(total_size, 8), FALSE)

EncodeStreamChunk(stream_id, offset, data) ==
  IF Len(data) + StreamChunkPayloadSize > MAX_FRAME_PAYLOAD
    THEN [thrown |-> "stream chunk too large"]
    ELSE MakeFrame(FrameTypeStreamChunk,
                   LittleEndian(stream_id, 8) \o LittleEndian(offset, 8) \o data,
                   FALSE)

EncodeStreamEnd(stream_id, crc32) ==
  MakeFrame(FrameTypeStreamEnd,
            LittleEndian(stream_id, 8) \o LittleEndian(crc32, 4), FALSE)

\* Encoder::SerializeFrames, the byte arrays concatenated for transmission
SerializeFrames(frames) ==
  Concat([i \in 1..Len(frames) |-> Serialize(frames[i])])

\* ---- Decoder ----

Zero(n) == LittleEndian(0, n)
DEFAULT_MESSAGE_TIMEOUT_MS == 30000

\* struct MessageAssembly, value-initialised
NoMessage == [total |-> 0, slices |-> <<>>, received |-> 0, first_seen |-> 0]
NewStats ==
  [frames_received |-> 0, messages_completed |-> 0, stream_events |-> 0,
   bytes_received |-> 0, crc_errors |-> 0, timeout_cleanups |-> 0]

\* Decoder::Decoder(message_timeout_ms); thrown is what() of the ProtocolError
\* the last call threw, now is what steady_clock::now() returns during a call
\* (milliseconds).
Decoder(message_timeout_ms) ==
  [buffer_ |-> <<>>, messages_ |-> EmptyMap, completed_messages_ |-> <<>>,
   stream_events_ |-> <<>>, stats_ |-> NewStats, thrown |-> "",
   message_timeout_ms_ |-> message_timeout_ms, now |-> 0]

NewDecoder == Decoder(DEFAULT_MESSAGE_TIMEOUT_MS)

\* The slot a slice is stored in, m.slices[mh->sequence], as an index from 1.
SliceSlotByArrival(m, sequence) == m.received + 1

SliceSlot(m, sequence) == sequence + 1

Throw(d, what) == [d |-> [d EXCEPT !.thrown = what], again |-> FALSE]
\* A read or an iterator range outside the object it refers to.
Undefined(d, what) == [d |-> [d EXCEPT !.thrown = "undefined: " \o what], again |-> FALSE]

\* TryDecode, the branch type == FrameType::Message
DecodeMessageFrame(d, payload, payload_data_len, rest) ==
  IF payload_data_len < MessageHeaderSize
    THEN Undefined(d, "message header")
    ELSE
      LET message_id == SubSeq(payload, 1, 8)
          total_slices == U16(SubSeq(payload, 9, 10))
          sequence == U16(SubSeq(payload, 11, 12))
      IN
      IF sequence >= total_slices THEN Throw(d, "bad slice index")
      ELSE
        LET found == IF message_id \in DOMAIN d.messages_
                       THEN d.messages_[message_id] ELSE NoMessage
            m == IF found.slices = <<>>
                   THEN [total |-> total_slices,
                         slices |-> [i \in 1..total_slices |-> <<>>],
                         received |-> found.received,
                         first_seen |-> d.now]
                   ELSE found
            slot == SliceSlot(m, sequence)
        IN
        IF sequence >= Len(m.slices) THEN Undefined(d, "slices index")
        ELSE
          LET stored ==
                IF m.slices[slot] = <<>>
                  THEN [m EXCEPT !.slices[slot] =
                                     SubSeq(payload, MessageHeaderSize + 1,
                                            payload_data_len),
                                 !.received = (@ + 1) % 65536]
                  ELSE m
          IN
          IF stored.received = stored.total
            THEN [d |-> [d EXCEPT
                           !.completed_messages_ =
                              Append(@, [message_id |-> message_id,
                                         data |-> Concat(stored.slices)]),
                           !.messages_ = MapErase(@, message_id),
                           !.stats_.messages_completed = @ + 1,
                           !.buffer_ = rest],
                  again |-> TRUE]
            ELSE [d |-> [d EXCEPT !.messages_ = MapPut(@, message_id, stored),
                                  !.buffer_ = rest],
                  again |-> TRUE]

\* TryDecode, the else branch: a stream event
DecodeStreamFrame(d, type, payload, payload_data_len, rest) ==
  LET ev == [type |-> type, stream_id |-> Zero(8), offset |-> Zero(8),
             total_size |-> Zero(8), crc32 |-> Zero(4), data |-> <<>>]
      need == IF type = FrameTypeStreamChunk THEN StreamChunkPayloadSize
              ELSE IF type = FrameTypeStreamStart THEN 16
              ELSE IF type = FrameTypeStreamEnd THEN 12
              ELSE 0
      filled ==
        IF type = FrameTypeStreamChunk
          THEN [ev EXCEPT !.stream_id = SubSeq(payload, 1, 8),
                          !.offset = SubSeq(payload, 9, 16),
                          !.data = SubSeq(payload, StreamChunkPayloadSize + 1,
                                          payload_data_len)]
        ELSE IF type = FrameTypeStreamStart
          THEN [ev EXCEPT !.stream_id = SubSeq(payload, 1, 8),
                          !.total_size = SubSeq(payload, 9, 16)]
        ELSE IF type = FrameTypeStreamEnd
          THEN [ev EXCEPT !.stream_id = SubSeq(payload, 1, 8),
                          !.crc32 = SubSeq(payload, 9, 12)]
        ELSE ev
  IN IF payload_data_len < need
       THEN Undefined([d EXCEPT !.stats_.stream_events = @ + 1], "stream payload")
       ELSE [d |-> [d EXCEPT !.stream_events_ = Append(@, filled),
                             !.stats_.stream_events = @ + 1,
                             !.buffer_ = rest],
             again |-> TRUE]

\* One pass of the while (true) loop of TryDecode; again is FALSE when the
\* pass returns or throws and TRUE when the loop goes round.
DecodeFrame(d) ==
  LET buf == d.buffer_ IN
  IF Len(buf) < FrameHeaderSize THEN [d |-> d, again |-> FALSE]
  ELSE IF buf[1] # MAGIC1 \/ buf[2] # MAGIC2 THEN Throw(d, "bad magic")
  ELSE IF buf[3] # VERSION THEN Throw(d, "unsupported version")
  ELSE
    LET payload_len == U32(SubSeq(buf, 7, 10)) IN
    IF payload_len > MAX_FRAME_PAYLOAD THEN Throw(d, "payload too large")
    ELSE
      LET frame_size == FrameHeaderSize + payload_len IN
      IF Len(buf) < frame_size THEN [d |-> d, again |-> FALSE]
      ELSE
        LET payload == SubSeq(buf, FrameHeaderSize + 1, frame_size)
            rest == SubSeq(buf, frame_size + 1, Len(buf))
            type == buf[4]
            counted == [d EXCEPT !.stats_.frames_received = @ + 1]
            has_crc == (U16(SubSeq(buf, 5, 6)) \div FLAG_CRC32) % 2 = 1
            checked == has_crc /\ payload_len >= 4
            payload_data_len == IF checked THEN payload_len - 4 ELSE payload_len
        IN
        IF checked /\ SubSeq(payload, payload_data_len + 1, payload_len)
                        # CalculateCRC32(SubSeq(payload, 1, payload_data_len))
          THEN [d |-> [counted EXCEPT !.stats_.crc_errors = @ + 1,
                                      !.buffer_ = rest],
                again |-> TRUE]
        ELSE IF type = FrameTypeMessage
          THEN DecodeMessageFrame(counted, payload, payload_data_len, rest)
          ELSE DecodeStreamFrame(counted, type, payload, payload_data_len, rest)

RECURSIVE TryDecode(_)
\* A TryDecode that decodes at most one frame per call.
TryDecodeOnce(d) == DecodeFrame(d).d

\* void Decoder::TryDecode()
TryDecode(d) ==
  LET r == DecodeFrame(d) IN IF r.again THEN TryDecode(r.d) ELSE r.d

\* void Decoder::Feed(data, len)
Feed(d, data) ==
  TryDecode([d EXCEPT !.thrown = "",
                      !.stats_.bytes_received = @ + Len(data),
                      !.buffer_ = @ \o data])

\* A cleanup that drops every pending message.
CleanupAllMessages(d) ==
  [d |-> [d EXCEPT !.messages_ = EmptyMap,
                   !.stats_.timeout_cleanups = @ + Cardinality(DOMAIN d.messages_)],
   cleaned |-> Cardinality(DOMAIN d.messages_)]

\* size_t Decoder::CleanupTimeoutMessages()
CleanupTimeoutMessages(d) ==
  LET old == {id \in DOMAIN d.messages_ :
                d.now - d.messages_[id].first_seen >= d.message_timeout_ms_}
  IN [d |-> [d EXCEPT !.messages_ = [id \in DOMAIN @ \ old |-> @[id]],
                      !.stats_.timeout_cleanups = @ + Cardinality(old)],
      cleaned |-> Cardinality(old)]

\* DecoderStats Decoder::GetStats(): the two fields it fills in
GetStats(d) ==
  [pending_messages |-> Cardinality(DOMAIN d.messages_),
   buffer_size |-> Len(d.buffer_)]

\* bool Decoder::GetMessage(out) and bool Decoder::GetStreamEvent(out)
GetMessage(d) ==
  IF d.completed_messages_ = <<>>
    THEN [ret |-> FALSE, d |-> d]
    ELSE [ret |-> TRUE, out |-> Head(d.completed_messages_),
          d |-> [d EXCEPT !.completed_messages_ = Tail(@)]]

\* A GetStreamEvent that hands out the newest event first.
GetNewestStreamEvent(d) ==
  IF d.stream_events_ = <<>>
    THEN [ret |-> FALSE, d |-> d]
    ELSE [ret |-> TRUE, out |-> d.stream_events_[Len(d.stream_events_)],
          d |-> [d EXCEPT !.stream_events_ = SubSeq(@, 1, Len(@) - 1)]]

GetStreamEvent(d) ==
  IF d.stream_events_ = <<>>
    THEN [ret |-> FALSE, d |-> d]
    ELSE [ret |-> TRUE, out |-> Head(d.stream_events_),
          d |-> [d EXCEPT !.stream_events_ = Tail(@)]]

\* ---- Encoder and Decoder at the two ends of a byte stream ----

MaxGets == 2
FlipPayloads == {<<7>>, <<7, 8, 9>>}
NoOutput == [ret |-> FALSE]

\* Frames of two messages and of one stream, as the Encoder makes them
SlicesA == EncodeMessage(1, <<7, 8, 9>>, TRUE).frames
SlicesB == EncodeMessage(513, <<1, 2, 3, 4, 5, 6, 7>>, FALSE).frames
StreamFrames ==
  <<EncodeStreamStart(2, 1), EncodeStreamChunk(2, 0, <<5>>), EncodeStreamEnd(2, 0)>>

\* frame with bit number bit of its payload inverted
FlipPayloadBit(frame, bit) ==
  [frame EXCEPT !.payload[(bit \div 8) + 1] =
                   XorByte(@, 2 ^ (bit % 8))]

\* Well-formed frame sequences: slices interleaved with stream frames, a
\* message with a slice missing, a slice sent twice, a frame damaged in transit.
FrameScripts ==
  { <<SlicesB[1], StreamFrames[1], SlicesB[2]>>,
    <<SlicesA[1], SlicesA[Len(SlicesA)]>>,
    <<SlicesB[2], SlicesB[2], StreamFrames[2], SlicesB[1]>>,
    <<FlipPayloadBit(SlicesA[1], 100), StreamFrames[3]>> }

MessageScenarios ==
  { [kind |-> "message", message_id |-> 1, data |-> <<>>, enable_crc |-> FALSE],
    [kind |-> "message", message_id |-> 513, data |-> <<>>, enable_crc |-> TRUE],
    [kind |-> "message", message_id |-> 1, data |-> <<7>>, enable_crc |-> FALSE],
    [kind |-> "message", message_id |-> 513, data |-> <<7, 8>>, enable_crc |-> TRUE],
    [kind |-> "message", message_id |-> 1, data |-> <<7, 8, 9>>, enable_crc |-> TRUE],
    [kind |-> "message", message_id |-> 513, data |-> <<1, 2, 3, 4, 5, 6, 7>>,
     enable_crc |-> FALSE] }
FrameScenarios == {[kind |-> "frames", frames |-> fs] : fs \in FrameScripts}

\* Calls of the Encoder: stream frames of two streams, and the slices of
\* message 513 (SlicesB) sent in between.
StreamStart(stream_id, total_size) ==
  [op |-> "start", stream_id |-> stream_id, total_size |-> total_size, offset |-> 0,
   crc32 |-> 0, data |-> <<>>, slice |-> 0]
StreamChunk(stream_id, offset, data) ==
  [op |-> "chunk", stream_id |-> stream_id, total_size |-> 0, offset |-> offset,
   crc32 |-> 0, data |-> data, slice |-> 0]
StreamEnd(stream_id, crc32) ==
  [op |-> "end", stream_id |-> stream_id, total_size |-> 0, offset |-> 0,
   crc32 |-> crc32, data |-> <<>>, slice |-> 0]
MessageSlice(i) ==
  [op |-> "slice", stream_id |-> 0, total_size |-> 0, offset |-> 0, crc32 |-> 0,
   data |-> <<>>, slice |-> i]

StreamScripts ==
  { <<MessageSlice(1), StreamStart(2, 1), StreamChunk(2, 0, <<5>>), MessageSlice(2),
      StreamEnd(2, 0)>>,
    <<StreamStart(770, 300), MessageSlice(1), StreamChunk(770, 256, <<>>),
      StreamEnd(770, 19088743), StreamChunk(2, 0, <<9>>)>> }

\* The frame the Encoder returns for a call.
EncodeCall(c) ==
  CASE c.op = "start" -> EncodeStreamStart(c.stream_id, c.total_size)
    [] c.op = "chunk" -> EncodeStreamChunk(c.stream_id, c.offset, c.data)
    [] c.op = "end" -> EncodeStreamEnd(c.stream_id, c.crc32)
    [] OTHER -> SlicesB[c.slice]

StreamScenarios ==
  { [kind |-> "frames", frames |-> [i \in 1..Len(sc) |-> EncodeCall(sc[i])],
     script |-> sc] : sc \in StreamScripts }

\* slice_payload of EncodeMessage
SlicePayload(enable_crc) ==
  MAX_FRAME_PAYLOAD - MessageHeaderSize - (IF enable_crc THEN 4 ELSE 0)

\* Messages of MAX_MESSAGE_SLICES + 1 and MAX_MESSAGE_SLICES + 2 full slices;
\* the scenario holds the length, the bytes are LongData(length).
LongScenarios ==
  { [kind |-> "long", message_id |-> 1,
     length |-> (MAX_MESSAGE_SLICES + k) * SlicePayload(TRUE),
     enable_crc |-> TRUE] : k \in {1, 2} }
LongData(length) == [i \in 1..length |-> i % 256]

\* the data argument of the scenario's EncodeMessage call
ScenarioData ==
  IF scenario.kind = "long" THEN LongData(scenario.length) ELSE scenario.data

\* A message sent with CRC, one bit of the payload of one of its frames
\* inverted in transit, and a second message sent after it.
FlipScenarios ==
  UNION { { [kind |-> "flip", message_id |-> 513, data |-> data,
             enable_crc |-> TRUE, slice |-> j, bit |-> b]
            : b \in 0..(8 * EncodeMessage(513, data, TRUE).frames[j].payload_len - 1) }
          : <<data, j>> \in
              { x \in FlipPayloads \X (1..3)
                  : x[2] <= Len(EncodeMessage(513, x[1], TRUE).frames) } }
FollowingMessage == [message_id |-> LittleEndian(1, 8), data |-> <<9>>]
FollowingFrames == EncodeMessage(1, FollowingMessage.data, TRUE).frames

CIdle ==
  /\ scenario = [kind |-> "none"]
  /\ c_phase = "idle"
  /\ enc_thrown = ""
  /\ wire = <<>>
  /\ fed = 0
  /\ decoder = NewDecoder
  /\ got_messages = <<>>
  /\ got_events = <<>>

CInit(scenarios) ==
  /\ scenario \in scenarios
  /\ c_phase = "encode"
  /\ enc_thrown = ""
  /\ wire = <<>>
  /\ fed = 0
  /\ decoder = NewDecoder
  /\ got_messages = <<>>
  /\ got_events = <<>>

\* The sender: Encoder::EncodeMessage (or the frames of the script), then
\* Frame::Serialize of every frame.
CodecEncode ==
  /\ c_phase = "encode"
  /\ LET enc == IF scenario.kind = "frames"
                  THEN [thrown |-> "", frames |-> scenario.frames]
                  ELSE EncodeMessage(scenario.message_id, ScenarioData,
                                     scenario.enable_crc)
         sent == IF scenario.kind = "flip"
                   THEN [enc.frames EXCEPT ![scenario.slice] =
                            FlipPayloadBit(@, scenario.bit)] \o FollowingFrames
                   ELSE enc.frames
     IN /\ enc_thrown' = enc.thrown
        /\ wire' = SerializeFrames(sent)
        /\ c_phase' = IF enc.thrown = "" THEN "feed" ELSE "failed"
  /\ UNCHANGED <<scenario, fed, decoder, got_messages, got_events>>

\* The receiver passes the next n bytes of the stream to Decoder::Feed.
FeedNext(n) ==
  /\ c_phase = "feed"
  /\ n \in 1..(Len(wire) - fed)
  /\ decoder' = Feed(decoder, SubSeq(wire, fed + 1, fed + n))
  /\ fed' = fed + n
  /\ UNCHANGED <<scenario, c_phase, enc_thrown, wire, got_messages, got_events>>

CodecFeed == \E n \in 1..(Len(wire) - fed) : FeedNext(n)

\* The stream arrives one byte at a time or all that is left at once.
CrcFeed == \E n \in {1, Len(wire) - fed} : FeedNext(n)

CodecGetMessage ==
  /\ c_phase = "feed"
  /\ Len(got_messages) + Len(got_events) < MaxGets
  /\ LET r == GetMessage(decoder) IN
       /\ decoder' = r.d
       /\ got_messages' = Append(got_messages, [x \in DOMAIN r \ {"d"} |-> r[x]])
  /\ UNCHANGED <<scenario, c_phase, enc_thrown, wire, fed, got_events>>

CodecGetStreamEvent ==
  /\ c_phase = "feed"
  /\ Len(got_messages) + Len(got_events) < MaxGets
  /\ LET r == GetStreamEvent(decoder) IN
       /\ decoder' = r.d
       /\ got_events' = Append(got_events, [x \in DOMAIN r \ {"d"} |-> r[x]])
  /\ UNCHANGED <<scenario, c_phase, enc_thrown, wire, fed, got_messages>>

\* The stream arrives in pieces that end just before or just after the end of
\* a frame header, or all that is left at once.
StreamFeed ==
  \E n \in {FrameHeaderSize - 1, FrameHeaderSize + 1, Len(wire) - fed} : FeedNext(n)

\* The receiver calls GetStreamEvent, at most once more than the stream has
\* frames.
StreamGetEvent ==
  /\ c_phase = "feed"
  /\ Len(got_events) <= Len(scenario.frames)
  /\ LET r == GetStreamEvent(decoder) IN
       /\ decoder' = r.d
       /\ got_events' = Append(got_events, [x \in DOMAIN r \ {"d"} |-> r[x]])
  /\ UNCHANGED <<scenario, c_phase, enc_thrown, wire, fed, got_messages>>

(***************************************************************************)
(*                              Client facade                              *)
(***************************************************************************)

\* Number of socket() calls, of data events and of SetOnMessage calls explored.
MaxSockets == 2
MaxReplies == 2
MaxSets == 2

Callbacks == {"A", "B"}
NoCallback == "none"
\* What a copy of on_message_ holds when it was made while the slot was written.
TornCallback == "torn"

NoClientCall == [op |-> "none", ret |-> FALSE, state |-> "kDisconnected", conns |-> {},
                 fd |-> 0, outcome |-> "none"]

\* Client::Impl(): no reactor, no worker pool, no callbacks.
ClIdle ==
  /\ cl_state = "kDisconnected"
  /\ cl_connection_id = 0
  /\ cl_reactor = FALSE
  /\ cl_conns = {}
  /\ cl_next_fd = 1
  /\ cl_events = <<>>
  /\ cl_on_message = NoCallback
  /\ cl_writing = NoCallback
  /\ cl_sets = 0
  /\ cl_replies = 0
  /\ cl_invoked = <<>>
  /\ cl_last = NoClientCall
  /\ cl_closes = [fd \in 1..MaxSockets |-> 0]

ClInit == ClIdle

NetworkEvent(type, connection_id) == [type |-> type, connection_id |-> connection_id]

\* Client::Impl::OnNetworkEvent on the client c = [state, connection_id,
\* invoked]; cb is the copy of on_message_ the handler made.
OnNetworkEvent(c, ev, cb) ==
  CASE ev.type = "kConnected" ->
         [c EXCEPT !.state = "kConnected", !.connection_id = ev.connection_id]
    [] ev.type = "kData" ->
         IF cb # NoCallback
         THEN [c EXCEPT !.invoked = Append(@, [cb |-> cb, slot |-> cl_on_message,
                                                 writing |-> cl_writing])]
         ELSE c
    [] OTHER ->
         [c EXCEPT !.state = "kDisconnected", !.connection_id = 0]

\* WorkerPool::Stop: the worker delivers the events still queued before it is
\* joined.
RECURSIVE DrainEvents(_, _)
DrainEvents(c, evs) ==
  IF evs = <<>> THEN c
  ELSE DrainEvents(OnNetworkEvent(c, Head(evs), cl_on_message), Tail(evs))

\* The state the exchange in ConnectInternal must find to go on.
ConnectAllowedFrom(state) == state = "kDisconnected"

\* close(fd) called on each descriptor of fds
CloseAll(closes, fds) == [fd \in DOMAIN closes |-> closes[fd] + IF fd \in fds THEN 1 ELSE 0]

\* ConnectIPv4(host, port) on the user thread; outcome is what connect(),
\* InitReactor() and AddConnection() do.  When StartReadMonitor fails,
\* AddConnection closes the descriptor and returns 0, and ConnectInternal
\* closes it as for every other failure.
ConnectIPv4(outcome) ==
  LET fd == cl_next_fd
      done(ret) == [op |-> "ConnectIPv4", ret |-> ret, state |-> cl_state,
                    conns |-> cl_conns, fd |-> fd, outcome |-> outcome]
  IN
  /\ cl_writing = NoCallback
  /\ cl_next_fd <= MaxSockets
  /\ cl_next_fd' = cl_next_fd + 1
  /\ IF ~ConnectAllowedFrom(cl_state)
       THEN /\ cl_state' = "kConnecting"
            /\ cl_closes' = CloseAll(cl_closes, {fd})
            /\ cl_last' = done(FALSE)
            /\ UNCHANGED <<cl_reactor, cl_conns, cl_events>>
       ELSE IF outcome = "connect fails"
         THEN /\ cl_state' = "kDisconnected"
              /\ cl_closes' = CloseAll(cl_closes, {fd})
              /\ cl_last' = done(FALSE)
              /\ UNCHANGED <<cl_reactor, cl_conns, cl_events>>
       ELSE IF outcome = "monitor fails"
         THEN /\ cl_state' = "kDisconnected"
              /\ cl_reactor' = TRUE
              /\ cl_closes' = CloseAll(CloseAll(cl_closes, {fd}), {fd})
              /\ cl_last' = done(FALSE)
              /\ UNCHANGED <<cl_conns, cl_events>>
         ELSE /\ cl_state' = "kConnecting"
              /\ UNCHANGED cl_closes
              /\ cl_reactor' = TRUE
              /\ cl_conns' = cl_conns \cup {fd}
              /\ cl_events' = Append(cl_events, NetworkEvent("kConnected", fd))
              /\ cl_last' = done(TRUE)
  /\ UNCHANGED <<cl_connection_id, cl_on_message, cl_writing, cl_sets, cl_replies,
                 cl_invoked>>

\* Disconnect() on the user thread, with Cleanup(): Reactor::Stop closes every
\* connection, WorkerPool::Stop delivers what is still queued.
Disconnect ==
  LET c == DrainEvents([state |-> cl_state, connection_id |-> cl_connection_id,
                        invoked |-> cl_invoked], cl_events)
  IN
  /\ cl_writing = NoCallback
  /\ cl_last' = [op |-> "Disconnect", ret |-> TRUE, state |-> cl_state,
                 conns |-> cl_conns, fd |-> 0, outcome |-> "none"]
  /\ IF cl_state \in {"kConnected", "kConnecting"}
       THEN /\ cl_state' = "kDisconnected"
            /\ cl_connection_id' = 0
            /\ cl_reactor' = FALSE
            /\ cl_conns' = {}
            /\ cl_events' = <<>>
            /\ cl_invoked' = c.invoked
            /\ cl_closes' = CloseAll(cl_closes, cl_conns)
       ELSE UNCHANGED <<cl_state, cl_connection_id, cl_reactor, cl_conns, cl_events,
                        cl_invoked, cl_closes>>
  /\ UNCHANGED <<cl_next_fd, cl_on_message, cl_writing, cl_sets, cl_replies>>

\* SetOnMessage(cb) on the user thread: the assignment to on_message_ starts.
SetOnMessageBegin(cb) ==
  /\ cl_writing = NoCallback
  /\ cl_sets < MaxSets
  /\ cl_sets' = cl_sets + 1
  /\ cl_writing' = cb
  /\ UNCHANGED <<cl_state, cl_connection_id, cl_reactor, cl_conns, cl_next_fd,
                 cl_events, cl_on_message, cl_replies, cl_invoked, cl_last>>

\* SetOnMessage(cb): the assignment is complete and the call returns.
SetOnMessageEnd ==
  /\ cl_writing # NoCallback
  /\ cl_on_message' = cl_writing
  /\ cl_writing' = NoCallback
  /\ UNCHANGED <<cl_state, cl_connection_id, cl_reactor, cl_conns, cl_next_fd,
                 cl_events, cl_sets, cl_replies, cl_invoked, cl_last>>

\* The reactor thread reads bytes from the connection and submits a Data event.
ClientDataArrives(fd) ==
  /\ fd \in cl_conns
  /\ cl_replies < MaxReplies
  /\ cl_replies' = cl_replies + 1
  /\ cl_events' = Append(cl_events, NetworkEvent("kData", fd))
  /\ UNCHANGED <<cl_state, cl_connection_id, cl_reactor, cl_conns, cl_next_fd,
                 cl_on_message, cl_writing, cl_sets, cl_invoked, cl_last>>

\* The reactor thread finds the connection closed by the peer: it closes the
\* descriptor, forgets the connection and submits a Disconnected event.
ClientPeerCloses(fd) ==
  /\ fd \in cl_conns
  /\ cl_conns' = cl_conns \ {fd}
  /\ cl_closes' = CloseAll(cl_closes, {fd})
  /\ cl_events' = Append(cl_events, NetworkEvent("kDisconnected", fd))
  /\ UNCHANGED <<cl_state, cl_connection_id, cl_reactor, cl_next_fd, cl_on_message,
                 cl_writing, cl_sets, cl_replies, cl_invoked, cl_last>>

\* The copies of on_message_ the worker thread can get under cb_mutex_: the
\* setters do not take cb_mutex_, so a copy made during an assignment races
\* with it.
CopiesOfOnMessage ==
  IF cl_writing = NoCallback THEN {cl_on_message}
  ELSE {cl_on_message, cl_writing, TornCallback}

\* The worker thread takes the next event and runs OnNetworkEvent on it.
ClientWorker ==
  /\ cl_events # <<>>
  /\ cl_events' = Tail(cl_events)
  /\ \E cb \in CopiesOfOnMessage :
       LET c == OnNetworkEvent([state |-> cl_state, connection_id |-> cl_connection_id,
                                invoked |-> cl_invoked], Head(cl_events), cb)
       IN /\ cl_state' = c.state
          /\ cl_connection_id' = c.connection_id
          /\ cl_invoked' = c.invoked
  /\ UNCHANGED <<cl_reactor, cl_conns, cl_next_fd, cl_on_message, cl_writing, cl_sets,
                 cl_replies, cl_last>>

(***************************************************************************)
(*              ConcurrentQueue shared by several threads                  *)
(***************************************************************************)

\* Threads that call the queue, the capacities it is built with and the number
\* of enqueue calls explored.
QueueThreads == {"t1", "t2", "t3"}
MaxQueueSize == 2
MaxEnqueues == 3

NoCall == [op |-> "none", thread |-> "none", ret |-> FALSE, value |-> 0,
           queue |-> <<>>, stopped |-> FALSE]
QueueCall(op, t, ret, value) ==
  [op |-> op, thread |-> t, ret |-> ret, value |-> value,
   queue |-> q_queue, stopped |-> q_is_stopped_]

\* The predicate Enqueue waits for on not_full_.
HasRoomOrStoppedInclusive(size, max_size_, is_stopped_) ==
  size <= max_size_ \/ is_stopped_

HasRoomOrStopped(size, max_size_, is_stopped_) ==
  size < max_size_ \/ is_stopped_

\* The condition on which WaitDequeue returns false after its wait.
WaitDequeueFailsUnlessEmpty(success, is_stopped_, empty) ==
  ~success \/ empty

WaitDequeueFails(success, is_stopped_, empty) ==
  ~success \/ is_stopped_ \/ empty

QIdle ==
  /\ q_queue = <<>>
  /\ q_max_size_ = 0
  /\ q_is_stopped_ = FALSE
  /\ q_pc = [t \in QueueThreads |-> "idle"]
  /\ q_arg = [t \in QueueThreads |-> 0]
  /\ q_next = 1
  /\ q_last = NoCall
  /\ q_woken = {}

\* ConcurrentQueue(max_size)
QInit ==
  /\ q_queue = <<>>
  /\ q_max_size_ \in 0..MaxQueueSize
  /\ q_is_stopped_ = FALSE
  /\ q_pc = [t \in QueueThreads |-> "idle"]
  /\ q_arg = [t \in QueueThreads |-> 0]
  /\ q_next = 1
  /\ q_last = NoCall
  /\ q_woken = {}

\* Enqueue(value): the thread takes the mutex and starts to wait on not_full_.
EnqueueCall(t) ==
  /\ q_pc[t] = "idle"
  /\ q_next <= MaxEnqueues
  /\ q_pc' = [q_pc EXCEPT ![t] = "Enqueue"]
  /\ q_arg' = [q_arg EXCEPT ![t] = q_next]
  /\ q_next' = q_next + 1
  /\ UNCHANGED <<q_queue, q_max_size_, q_is_stopped_, q_last>>

\* Enqueue: the wait is over (a notification or a spurious wakeup found the
\* predicate true), and the rest runs under the mutex.
EnqueueReturn(t) ==
  /\ q_pc[t] = "Enqueue"
  /\ q_max_size_ > 0 => HasRoomOrStopped(Len(q_queue), q_max_size_, q_is_stopped_)
  /\ IF q_is_stopped_
       THEN /\ q_last' = QueueCall("Enqueue", t, FALSE, q_arg[t])
            /\ UNCHANGED q_queue
       ELSE /\ q_queue' = Append(q_queue, q_arg[t])
            /\ q_last' = QueueCall("Enqueue", t, TRUE, q_arg[t])
  /\ q_pc' = [q_pc EXCEPT ![t] = "idle"]
  /\ q_arg' = [q_arg EXCEPT ![t] = 0]
  /\ q_woken' = q_woken \ {t}
  /\ UNCHANGED <<q_max_size_, q_is_stopped_, q_next>>

TryEnqueue(t) ==
  /\ q_pc[t] = "idle"
  /\ q_next <= MaxEnqueues
  /\ q_next' = q_next + 1
  /\ IF q_max_size_ > 0 /\ Len(q_queue) >= q_max_size_
       THEN /\ q_last' = QueueCall("TryEnqueue", t, FALSE, q_next)
            /\ UNCHANGED q_queue
       ELSE IF q_is_stopped_
         THEN /\ q_last' = QueueCall("TryEnqueue", t, FALSE, q_next)
              /\ UNCHANGED q_queue
         ELSE /\ q_queue' = Append(q_queue, q_next)
              /\ q_last' = QueueCall("TryEnqueue", t, TRUE, q_next)
  /\ UNCHANGED <<q_max_size_, q_is_stopped_, q_pc, q_arg>>

TryDequeue(t) ==
  /\ q_pc[t] = "idle"
  /\ IF q_queue = <<>>
       THEN /\ q_last' = QueueCall("TryDequeue", t, FALSE, 0)
            /\ UNCHANGED q_queue
       ELSE /\ q_queue' = Tail(q_queue)
            /\ q_last' = QueueCall("TryDequeue", t, TRUE, Head(q_queue))
  /\ UNCHANGED <<q_max_size_, q_is_stopped_, q_pc, q_arg, q_next>>

\* WaitDequeue(result, timeout): the thread takes the mutex and starts to wait
\* on not_empty_.
WaitDequeueCall(t) ==
  /\ q_pc[t] = "idle"
  /\ q_pc' = [q_pc EXCEPT ![t] = "WaitDequeue"]
  /\ UNCHANGED <<q_queue, q_max_size_, q_is_stopped_, q_arg, q_next, q_last>>

\* WaitDequeue: wait_for returns the value of its predicate, either because the
\* predicate is true or because the timeout has expired.
WaitDequeueReturn(t) ==
  LET success == q_queue # <<>> \/ q_is_stopped_ IN
  /\ q_pc[t] = "WaitDequeue"
  /\ IF WaitDequeueFails(success, q_is_stopped_, q_queue = <<>>)
       THEN /\ q_last' = QueueCall("WaitDequeue", t, FALSE, 0)
            /\ UNCHANGED q_queue
       ELSE /\ q_queue' = Tail(q_queue)
            /\ q_last' = QueueCall("WaitDequeue", t, TRUE, Head(q_queue))
  /\ q_pc' = [q_pc EXCEPT ![t] = "idle"]
  /\ q_woken' = q_woken \ {t}
  /\ UNCHANGED <<q_max_size_, q_is_stopped_, q_arg, q_next>>

\* The threads waiting on not_full_ or not_empty_ with a false predicate.
Blocked ==
  {t \in QueueThreads :
     \/ /\ q_pc[t] = "Enqueue"
        /\ q_max_size_ > 0
        /\ ~HasRoomOrStopped(Len(q_queue), q_max_size_, q_is_stopped_)
     \/ /\ q_pc[t] = "WaitDequeue"
        /\ q_queue = <<>> /\ ~q_is_stopped_}

\* void NotifyStop(): sets is_stopped_ under the mutex, then notify_all on both
\* condition variables
NotifyStop(t) ==
  /\ q_pc[t] = "idle"
  /\ ~q_is_stopped_
  /\ q_is_stopped_' = TRUE
  /\ q_woken' = q_woken \cup Blocked
  /\ q_last' = QueueCall("NotifyStop", t, TRUE, 0)
  /\ UNCHANGED <<q_queue, q_max_size_, q_pc, q_arg, q_next>>

\* void Reset(): clears is_stopped_ under the mutex and notifies nobody
QueueReset(t) ==
  /\ q_pc[t] = "idle"
  /\ q_is_stopped_
  /\ q_is_stopped_' = FALSE
  /\ q_last' = QueueCall("Reset", t, TRUE, 0)
  /\ UNCHANGED <<q_queue, q_max_size_, q_pc, q_arg, q_next>>

(***************************************************************************)
(*              Decoder fed with frames from the network                   *)
(* The peer sends one frame at a time; the receiver passes the bytes of    *)
(* the frame to Decoder::Feed in one or several calls.  Time passes        *)
(* between calls and CleanupTimeoutMessages is called at any time.         *)
(***************************************************************************)

MaxRawFrames == 3
MaxClock == 2
\* message_timeout_ms of the decoder under test; 30000 by default, scaled
MessageTimeout == 2

\* struct MessageHeader in memory
MessageHeaderBytes(message_id, total_slices, sequence) ==
  LittleEndian(message_id, 8) \o LittleEndian(total_slices, 2)
    \o LittleEndian(sequence, 2)

\* A Message frame as it arrives, with what the sender put in its header
SliceFrame(message_id, total_slices, sequence, data, crc) ==
  [kind |-> "slice", message_id |-> LittleEndian(message_id, 8),
   total |-> total_slices, sequence |-> sequence,
   bytes |-> Serialize(MakeFrame(FrameTypeMessage,
                                 MessageHeaderBytes(message_id, total_slices,
                                                    sequence) \o data, crc))]
OtherFrame(kind, bytes) ==
  [kind |-> kind, message_id |-> Zero(8), total |-> 0, sequence |-> 0,
   bytes |-> bytes]

\* The frames EncodeMessage made, as they arrive
EncodedSlices(message_id, data, crc) ==
  LET frames == EncodeMessage(message_id, data, crc).frames IN
  [i \in 1..Len(frames) |->
     [kind |-> "slice", message_id |-> LittleEndian(message_id, 8),
      total |-> Len(frames), sequence |-> i - 1,
      bytes |-> Serialize(frames[i])]]

\* What a peer can send: the two slices of a message, a slice without user
\* bytes and the slice that follows it, a slice whose sequence is not below
\* total_slices, a frame of an unassigned type, and frames with a wrong magic
\* byte, a wrong version and a payload_len above MAX_FRAME_PAYLOAD.
NetFrames ==
  EncodedSlices(513, <<1, 2, 3, 4, 5, 6, 7>>, FALSE)
  \o << SliceFrame(2, 2, 0, <<>>, FALSE),
        SliceFrame(2, 2, 1, <<4>>, FALSE),
        SliceFrame(2, 2, 2, <<4>>, FALSE),
        OtherFrame("unknown type", Serialize(MakeFrame(5, <<>>, FALSE))),
        OtherFrame("bad magic",
                   [Serialize(EncodeStreamEnd(2, 0)) EXCEPT ![2] = MAGIC1]),
        OtherFrame("bad version",
                   [Serialize(EncodeStreamEnd(2, 0)) EXCEPT ![3] = VERSION + 1]),
        OtherFrame("too long",
                   <<MAGIC1, MAGIC2, VERSION, FrameTypeStreamChunk, 0, 0>>
                     \o LittleEndian(MAX_FRAME_PAYLOAD + 1, 4) \o Zero(6)) >>

\* The frames of two messages as EncodeMessage makes them
MessageFrames ==
  EncodedSlices(1, <<7, 8, 9>>, TRUE)
    \o EncodedSlices(513, <<1, 2, 3, 4, 5, 6, 7>>, FALSE)

RdIdle ==
  /\ rd_frames = <<>>
  /\ rd_pool = <<>>
  /\ rd_limit = 0
  /\ rd_wire = <<>>
  /\ rd_sent = <<>>
  /\ rd_decoder = NewDecoder
  /\ rd_clock = 0
  /\ rd_last = [op |-> "none", cleaned |-> 0]
  /\ rd_first = EmptyMap
  /\ rd_seqs = EmptyMap
  /\ rd_done = <<>>

\* Decoder decoder(message_timeout_ms); the peer sends each frame up to
\* `copies` times, `limit` frames in all
RdInit(frames, copies, limit, message_timeout_ms) ==
  /\ rd_frames = frames
  /\ rd_pool = [i \in 1..Len(frames) |-> copies]
  /\ rd_limit = limit
  /\ rd_wire = <<>>
  /\ rd_sent = <<>>
  /\ rd_decoder = Decoder(message_timeout_ms)
  /\ rd_clock = 0
  /\ rd_last = [op |-> "none", cleaned |-> 0]
  /\ rd_first = EmptyMap
  /\ rd_seqs = EmptyMap
  /\ rd_done = <<>>

\* The peer sends frame number i.
RdSend(i) ==
  /\ rd_wire = <<>>
  /\ Len(rd_sent) < rd_limit
  /\ rd_pool[i] > 0
  /\ rd_pool' = [rd_pool EXCEPT ![i] = @ - 1]
  /\ rd_wire' = rd_frames[i].bytes
  /\ rd_sent' = Append(rd_sent, i)
  /\ UNCHANGED <<rd_frames, rd_limit, rd_decoder, rd_clock, rd_last, rd_first,
                 rd_seqs, rd_done>>

\* decoder.Feed(data, n) with the next n bytes that arrived
RdFeed(n) ==
  /\ n \in 1..Len(rd_wire)
  /\ LET d == Feed([rd_decoder EXCEPT !.now = rd_clock], SubSeq(rd_wire, 1, n))
         f == rd_frames[rd_sent[Len(rd_sent)]]
         id == f.message_id
         \* the call decoded the frame in transit as a slice
         stored == /\ n = Len(rd_wire)
                   /\ f.kind = "slice"
                   /\ d.thrown = ""
                   /\ d.stats_.frames_received > rd_decoder.stats_.frames_received
                   /\ d.stats_.crc_errors = rd_decoder.stats_.crc_errors
         seqs == (IF id \in DOMAIN rd_seqs THEN rd_seqs[id] ELSE {})
                    \cup {f.sequence}
     IN /\ rd_decoder' = d
        /\ rd_wire' = SubSeq(rd_wire, n + 1, Len(rd_wire))
        /\ rd_last' = [op |-> "feed", cleaned |-> 0]
        /\ IF ~stored
             THEN UNCHANGED <<rd_first, rd_seqs, rd_done>>
           ELSE IF id \in DOMAIN d.messages_
             THEN /\ rd_seqs' = MapPut(rd_seqs, id, seqs)
                  /\ rd_first' = IF id \in DOMAIN rd_first THEN rd_first
                                 ELSE MapPut(rd_first, id, rd_clock)
                  /\ UNCHANGED rd_done
           ELSE /\ rd_seqs' = MapErase(rd_seqs, id)
                /\ rd_first' = MapErase(rd_first, id)
                /\ rd_done' = Append(rd_done, [message_id |-> id, total |-> f.total,
                                               seqs |-> seqs])
  /\ UNCHANGED <<rd_frames, rd_pool, rd_limit, rd_sent, rd_clock>>

\* steady_clock advances by one millisecond.
RdTick ==
  /\ rd_clock < MaxClock
  /\ rd_clock' = rd_clock + 1
  /\ UNCHANGED <<rd_frames, rd_pool, rd_limit, rd_wire, rd_sent, rd_decoder,
                 rd_last, rd_first, rd_seqs, rd_done>>

\* decoder.CleanupTimeoutMessages()
RdCleanup ==
  /\ rd_last.op # "cleanup"
  /\ LET r == CleanupTimeoutMessages([rd_decoder EXCEPT !.now = rd_clock]) IN
       /\ rd_decoder' = r.d
       /\ rd_last' = [op |-> "cleanup", cleaned |-> r.cleaned]
       /\ rd_first' = [id \in DOMAIN rd_first \cap DOMAIN r.d.messages_ |->
                         rd_first[id]]
       /\ rd_seqs' = [id \in DOMAIN rd_seqs \cap DOMAIN r.d.messages_ |->
                        rd_seqs[id]]
  /\ UNCHANGED <<rd_frames, rd_pool, rd_limit, rd_wire, rd_sent, rd_clock,
                 rd_done>>

\* The receiver passes on the bytes up to the end of the frame header, one
\* less, one more, or all that arrived.
FeedSizes == {FrameHeaderSize - 1, FrameHeaderSize, FrameHeaderSize + 1, Len(rd_wire)}

RdSendAny == \E i \in 1..Len(rd_frames) : RdSend(i)
RdFeedAny == \E n \in FeedSizes : RdFeed(n)

(***************************************************************************)
(*        Reactor::SendData and the byte stream of one connection          *)
(* Sender threads call SendData for the same connection; every send() is   *)
(* one step.  The socket holds at most SocketBufferSize bytes that the     *)
(* peer has not received.  The peer's reactor reads the stream with recv   *)
(* into a buffer of kDefaultReceiveBufferSize bytes and submits one kData  *)
(* event per recv.  A byte is <<call, k>>: byte k of the data of a call.   *)
(***************************************************************************)

\* 8192 in configuration.h; scaled down together with the message sizes.
kDefaultReceiveBufferSize == 2
SocketBufferSize == 2
MaxSendSize == 3
MaxSendCalls == 2

Senders == {"a", "b"}
SendCalls == 1..Len(sd_sizes)
\* the data argument of call c
DataOf(c) == [k \in 1..sd_sizes[c] |-> <<c, k>>]

SDIdle ==
  /\ sd_open = FALSE
  /\ sd_err = FALSE
  /\ sd_pc = [t \in Senders |-> "idle"]
  /\ sd_call = [t \in Senders |-> 0]
  /\ sd_sent = [t \in Senders |-> 0]
  /\ sd_eagain = [t \in Senders |-> FALSE]
  /\ sd_sizes = <<>>
  /\ sd_ret = <<>>
  /\ sd_kernel = <<>>
  /\ sd_delivered = <<>>
  /\ sd_events = <<>>

\* A started reactor with one connection added and its peer connected
SDInit ==
  /\ sd_open = TRUE
  /\ sd_err = FALSE
  /\ sd_pc = [t \in Senders |-> "idle"]
  /\ sd_call = [t \in Senders |-> 0]
  /\ sd_sent = [t \in Senders |-> 0]
  /\ sd_eagain = [t \in Senders |-> FALSE]
  /\ sd_sizes = <<>>
  /\ sd_ret = <<>>
  /\ sd_kernel = <<>>
  /\ sd_delivered = <<>>
  /\ sd_events = <<>>

\* bool Reactor::SendData(connection_id, data, size), up to the loop:
\* connections_.find, fd = it->second.file_descriptor, sent = 0
SendDataFind(t, size) ==
  /\ sd_pc[t] = "idle"
  /\ Len(sd_sizes) < MaxSendCalls
  /\ sd_sizes' = Append(sd_sizes, size)
  /\ sd_call' = [sd_call EXCEPT ![t] = Len(sd_sizes) + 1]
  /\ sd_sent' = [sd_sent EXCEPT ![t] = 0]
  /\ sd_eagain' = [sd_eagain EXCEPT ![t] = FALSE]
  /\ IF sd_open
       THEN /\ sd_pc' = [sd_pc EXCEPT ![t] = "send"]
            /\ sd_ret' = Append(sd_ret, "none")
       ELSE /\ sd_pc' = sd_pc
            /\ sd_ret' = Append(sd_ret, "false")
  /\ UNCHANGED <<sd_open, sd_err, sd_kernel, sd_delivered, sd_events>>

\* What send(fd, data + sent, size - sent, 0) can return: the number of bytes
\* the socket took, EAGAIN when it is full, another errno when the descriptor
\* was closed or the peer has reset the connection
SendReturns(t) ==
  IF ~sd_open \/ sd_err THEN {[errno |-> "other", n |-> 0]}
  ELSE IF Len(sd_kernel) = SocketBufferSize THEN {[errno |-> "EAGAIN", n |-> 0]}
  ELSE {[errno |-> "", n |-> n] :
          n \in 1..Min(SocketBufferSize - Len(sd_kernel),
                       sd_sizes[sd_call[t]] - sd_sent[t])}

\* SendData: one pass of `while (sent < size)` and, when sent reaches size,
\* the return.  stale says what the read of it->second yields after another
\* thread erased the connection: the erased id (TRUE) or something else.
SendDataLoop(t, ret, stale) ==
  /\ sd_pc[t] = "send"
  /\ ret \in SendReturns(t)
  /\ IF ret.errno = "EAGAIN"
       THEN /\ sd_eagain' = [sd_eagain EXCEPT ![t] = TRUE]
            /\ UNCHANGED <<sd_open, sd_pc, sd_sent, sd_ret, sd_kernel, sd_events>>
     ELSE IF ret.errno = "other"
       THEN /\ sd_events' = IF sd_open \/ stale THEN Append(sd_events, "Error")
                            ELSE sd_events
            /\ sd_open' = FALSE
            /\ sd_pc' = [sd_pc EXCEPT ![t] = "idle"]
            /\ sd_ret' = [sd_ret EXCEPT ![sd_call[t]] = "false"]
            /\ UNCHANGED <<sd_sent, sd_eagain, sd_kernel>>
     ELSE /\ sd_kernel' = sd_kernel \o [k \in 1..ret.n |-> <<sd_call[t], sd_sent[t] + k>>]
          /\ sd_sent' = [sd_sent EXCEPT ![t] = @ + ret.n]
          /\ IF sd_sent[t] + ret.n < sd_sizes[sd_call[t]]
               THEN UNCHANGED <<sd_pc, sd_ret>>
               ELSE /\ sd_pc' = [sd_pc EXCEPT ![t] = "idle"]
                    /\ sd_ret' = [sd_ret EXCEPT ![sd_call[t]] = "true"]
          /\ UNCHANGED <<sd_open, sd_eagain, sd_events>>
  /\ UNCHANGED <<sd_err, sd_call, sd_sizes, sd_delivered>>

\* The peer's Reactor::HandleReadEvent: recv returns n > 0 bytes and one kData
\* event with those bytes is submitted
PeerRecv(n) ==
  /\ ~sd_err
  /\ n \in 1..Min(Len(sd_kernel), kDefaultReceiveBufferSize)
  /\ sd_delivered' = Append(sd_delivered, SubSeq(sd_kernel, 1, n))
  /\ sd_kernel' = SubSeq(sd_kernel, n + 1, Len(sd_kernel))
  /\ UNCHANGED <<sd_open, sd_err, sd_pc, sd_call, sd_sent, sd_eagain, sd_sizes,
                 sd_ret, sd_events>>

\* The peer resets the connection; what it had not received is lost
PeerReset ==
  /\ sd_open /\ ~sd_err
  /\ sd_err' = TRUE
  /\ sd_kernel' = <<>>
  /\ UNCHANGED <<sd_open, sd_pc, sd_call, sd_sent, sd_eagain, sd_sizes, sd_ret,
                 sd_delivered, sd_events>>

SDCall == \E t \in Senders, size \in 1..MaxSendSize : SendDataFind(t, size)
SDLoop ==
  \E t \in Senders, errno \in {"", "EAGAIN", "other"}, n \in 0..SocketBufferSize,
     stale \in BOOLEAN : SendDataLoop(t, [errno |-> errno, n |-> n], stale)
SDRecv == \E n \in 1..kDefaultReceiveBufferSize : PeerRecv(n)

(***************************************************************************)
(*                            Connection ids                               *)
(* Reactor::AddConnection builds the id itself; ConnectionIdGenerator is   *)
(* the class that implements the documented field layout.                  *)
(***************************************************************************)

MaxAdds == 3
ReactorIds == {0, 1}
IdThreads == {"t1", "t2"}

Limb == 65536
U64(n) == <<n % Limb, (n \div Limb) % Limb, 0, 0>>

\* x + 1 on a uint64_t
Inc64(x) ==
  LET c1 == IF x[1] = Limb - 1 THEN 1 ELSE 0
      c2 == IF c1 = 1 /\ x[2] = Limb - 1 THEN 1 ELSE 0
      c3 == IF c2 = 1 /\ x[3] = Limb - 1 THEN 1 ELSE 0
  IN <<(x[1] + 1) % Limb, (x[2] + c1) % Limb, (x[3] + c2) % Limb,
       (x[4] + c3) % Limb>>

RECURSIVE OrBits(_, _)
OrBits(a, b) ==
  IF a = 0 THEN b
  ELSE IF b = 0 THEN a
  ELSE (IF a % 2 = 1 \/ b % 2 = 1 THEN 1 ELSE 0) + 2 * OrBits(a \div 2, b \div 2)

\* (static_cast<uint64_t>(reactor_id_) << 32) | local_id
MakeConnectionId(reactor_id, local_id) ==
  <<local_id[1], local_id[2], OrBits(reactor_id % Limb, local_id[3]),
    OrBits(reactor_id \div Limb, local_id[4])>>

\* the calendar day of the run, as localtime_r reports it
Today == [tm_year |-> 126, tm_mon |-> 10, tm_mday |-> 5]

GetCurrentDate ==
  (Today.tm_year % 100) * 10000 + (Today.tm_mon + 1) * 100 + Today.tm_mday

\* ConnectionIdGenerator::Generate(reactorId, fd, seq)
Generate(reactorId, fd, seq) ==
  LET dateShort == GetCurrentDate % 16777216
  IN <<seq % Limb, fd % Limb, (reactorId % 256) + 256 * (dateShort % 256),
       dateShort \div 256>>

\* ConnectionIdGenerator::Parse(connId, date, reactorId, fd, seq)
Parse(connId) ==
  [date |-> (connId[3] \div 256) + 256 * connId[4],
   reactorId |-> connId[3] % 256,
   fd |-> connId[2],
   seq |-> connId[1]]

IdIdle ==
  /\ ids_next = [r \in ReactorIds |-> U64(1)]
  /\ ids_pc = [t \in IdThreads |-> "idle"]
  /\ ids_reactor = [t \in IdThreads |-> 0]
  /\ ids_fd = [t \in IdThreads |-> 0]
  /\ ids_local = [t \in IdThreads |-> U64(0)]
  /\ ids_started = 0
  /\ ids_assigned = <<>>

\* Reactor::Reactor(id, worker_pool) for each reactor, then Start()
IdInit == IdIdle

\* AddConnection(fd, peer) up to the read of next_connection_id_ in
\* `local_id = next_connection_id_++`; the kernel hands out a descriptor that no
\* open connection has.
AddConnectionRead(t, r) ==
  /\ ids_pc[t] = "idle"
  /\ ids_started < MaxAdds
  /\ ids_started' = ids_started + 1
  /\ ids_reactor' = [ids_reactor EXCEPT ![t] = r]
  /\ ids_fd' = [ids_fd EXCEPT ![t] = 3 + ids_started]
  /\ ids_local' = [ids_local EXCEPT ![t] = ids_next[r]]
  /\ ids_pc' = [ids_pc EXCEPT ![t] = "read"]
  /\ UNCHANGED <<ids_next, ids_assigned>>

\* the write of `next_connection_id_++`: the member is a plain uint64_t and no
\* lock is held, so the write stores the value this thread read, plus one
AddConnectionWrite(t) ==
  /\ ids_pc[t] = "read"
  /\ ids_next' = [ids_next EXCEPT ![ids_reactor[t]] = Inc64(ids_local[t])]
  /\ ids_pc' = [ids_pc EXCEPT ![t] = "made"]
  /\ UNCHANGED <<ids_reactor, ids_fd, ids_local, ids_started, ids_assigned>>

\* the rest of AddConnection: connection_id, StartReadMonitor, registration
AddConnectionRegister(t, monitor_ok) ==
  /\ ids_pc[t] = "made"
  /\ ids_assigned' =
       IF monitor_ok
         THEN Append(ids_assigned,
                     [reactor |-> ids_reactor[t], fd |-> ids_fd[t],
                      connection_id |->
                        MakeConnectionId(ids_reactor[t], ids_local[t])])
         ELSE ids_assigned
  /\ ids_pc' = [ids_pc EXCEPT ![t] = "idle"]
  /\ UNCHANGED <<ids_next, ids_reactor, ids_fd, ids_local, ids_started>>

IdRead == \E t \in IdThreads, r \in ReactorIds : AddConnectionRead(t, r)
IdWrite == \E t \in IdThreads : AddConnectionWrite(t)
IdRegister == \E t \in IdThreads, ok \in BOOLEAN : AddConnectionRegister(t, ok)

(***************************************************************************)
(*                     Specifications and properties                       *)
(***************************************************************************)

InitSendBuffer == SBInit /\ WPIdle /\ RInit /\ CIdle /\ SDIdle /\ IdIdle /\ RdIdle /\ QIdle /\ ClIdle
NextSendBuffer ==
  \/ SBWrite /\ UNCHANGED <<wpVars, rVars, cVars, sdVars, idVars, rdVars, qVars, clVars>>
  \/ SBSend /\ UNCHANGED <<wpVars, rVars, cVars, sdVars, idVars, rdVars, qVars, clVars>>
  \/ SBSendNone /\ UNCHANGED <<wpVars, rVars, cVars, sdVars, idVars, rdVars, qVars, clVars>>
  \/ CompactCall /\ UNCHANGED <<wpVars, rVars, cVars, sdVars, idVars, rdVars, qVars, clVars>>
  \/ Clear /\ UNCHANGED <<wpVars, rVars, cVars, sdVars, idVars, rdVars, qVars, clVars>>
SpecSendBuffer == InitSendBuffer /\ [][NextSendBuffer]_vars

\* C9: in every reachable state read_pos <= write_pos <= capacity <= 32 MiB, and
\* right after a SendToSocket call that sent the last readable byte the buffer
\* is empty with both positions at 0.
C9_PositionsBounded ==
  /\ 0 <= read_pos_
  /\ read_pos_ <= write_pos_
  /\ write_pos_ <= buffer_size
  /\ buffer_size <= MAX_CAPACITY
  /\ (sb_last.op = "SendToSocket" /\ sb_last.ret > 0 /\ sb_last.ret = sb_last.before)
       => (Size(read_pos_, write_pos_) = 0 /\ read_pos_ = 0 /\ write_pos_ = 0)

\* C9 witness: a buffer grown to the ceiling and partly sent has just been drained
\* by a SendToSocket call.
C9_Witness ==
  /\ sb_last.op = "SendToSocket"
  /\ sb_last.ret > 0
  /\ sb_last.ret = sb_last.before
  /\ sb_last.before < MAX_CAPACITY
  /\ buffer_size = MAX_CAPACITY

\* C10: a Write call with a valid data pointer, of any size including 0, returns
\* false exactly when the buffered bytes plus size exceed 32 MiB, and otherwise
\* returns true with Size() grown by exactly size.
C10_WriteFailsIffOverflow ==
  (sb_last.op = "Write" /\ sb_last.data)
    => /\ (sb_last.ret = 0) <=> (sb_last.before + sb_last.size > MAX_CAPACITY)
       /\ (sb_last.ret = 1) =>
            (Size(read_pos_, write_pos_) = sb_last.before + sb_last.size)

InitPool == WPInit /\ SBInit /\ RInit /\ CIdle /\ SDIdle /\ IdIdle /\ RdIdle /\ QIdle /\ ClIdle
NextPool ==
  \/ Start /\ UNCHANGED <<stop_seen, sbVars, rVars, cVars, sdVars, idVars, rdVars, qVars, clVars>>
  \/ StopBegin /\ UNCHANGED <<sbVars, rVars, cVars, sdVars, idVars, rdVars, qVars, clVars>>
  \/ StopNotRunning /\ UNCHANGED <<sbVars, rVars, cVars, sdVars, idVars, rdVars, qVars, clVars>>
  \/ StopJoined /\ UNCHANGED <<stop_seen, sbVars, rVars, cVars, sdVars, idVars, rdVars, qVars, clVars>>
  \/ WPSubmit /\ UNCHANGED <<stop_seen, sbVars, rVars, cVars, sdVars, idVars, rdVars, qVars, clVars>>
  \/ WPPoll /\ UNCHANGED <<stop_seen, sbVars, rVars, cVars, sdVars, idVars, rdVars, qVars, clVars>>
  \/ WPCallback /\ UNCHANGED <<stop_seen, sbVars, rVars, cVars, sdVars, idVars, rdVars, qVars, clVars>>
  \/ WPDrain /\ UNCHANGED <<stop_seen, sbVars, rVars, cVars, sdVars, idVars, rdVars, qVars, clVars>>
SpecPool == InitPool /\ [][NextPool]_vars

\* C4: for every connection the callback sees the connection's events in exactly
\* the order in which SubmitEvent was called for them (the k-th callback of a
\* connection is for its k-th submitted event), for every worker count.
C4_PerConnectionOrder ==
  \A c \in PoolConnections :
    \A k \in 1..Len(delivered[c]) : delivered[c][k] = k

\* C4 witness: two workers; connections 1 and 3 share a worker and each had two
\* events delivered, while connection 2 on the other worker had one delivered.
C4_Witness ==
  /\ worker_count_ = 2
  /\ Len(delivered[1]) = 2
  /\ Len(delivered[3]) = 2
  /\ Len(delivered[2]) >= 1

\* C5: once Stop has returned, every event that was passed to SubmitEvent has been
\* delivered to the callback (the pool has no way to report an event as dropped),
\* so no event is left in a queue; events submitted during or after Stop included.
C5_NoEventLeftAfterStop ==
  (stop_pc = "returned")
    => /\ \A c \in PoolConnections : Len(delivered[c]) = next_tag[c]
       /\ \A i \in Workers : event_queues_[i] = <<>>

InCallback(i) == worker_pc[i] \in {"callback", "drain_callback"}

\* C16: every event waits in queue connection_id % worker_count_, the worker that
\* runs a callback for an event is worker connection_id % worker_count_, and no
\* two workers ever run a callback for the same connection at the same time.
C16_OneWorkerPerConnection ==
  /\ \A i \in Workers : \A k \in 1..Len(event_queues_[i]) :
        event_queues_[i][k].conn % worker_count_ = i
  /\ \A i \in Workers :
        InCallback(i) => worker_event[i].conn % worker_count_ = i
  /\ \A i, j \in Workers :
        (i # j /\ InCallback(i) /\ InCallback(j))
          => worker_event[i].conn # worker_event[j].conn

\* C16 witness: two workers run callbacks in parallel, worker 0 for connection 2
\* and worker 1 for connection 1, while the next event of connection 2 waits in
\* worker 0's queue.
C16_Witness ==
  /\ worker_count_ = 2
  /\ worker_pc[0] = "callback" /\ worker_event[0].conn = 2
  /\ worker_pc[1] = "callback" /\ worker_event[1].conn = 1
  /\ event_queues_[0] # <<>> /\ Head(event_queues_[0]).conn = 2

InitReactor == RInit /\ SBInit /\ WPIdle /\ CIdle /\ SDIdle /\ IdIdle /\ RdIdle /\ QIdle /\ ClIdle
NextReactor ==
  \/ ReactorStart /\ UNCHANGED <<removed, sbVars, wpVars, cVars, sdVars, idVars, rdVars, qVars, clVars>>
  \/ RStop /\ UNCHANGED <<removed, sbVars, wpVars, cVars, sdVars, idVars, rdVars, qVars, clVars>>
  \/ RStopJoined /\ UNCHANGED <<removed, sbVars, wpVars, cVars, sdVars, idVars, rdVars, qVars, clVars>>
  \/ RAdd /\ UNCHANGED <<removed, sbVars, wpVars, cVars, sdVars, idVars, rdVars, qVars, clVars>>
  \/ RAddMaps /\ UNCHANGED <<removed, sbVars, wpVars, cVars, sdVars, idVars, rdVars, qVars, clVars>>
  \/ RAddSubmit /\ UNCHANGED <<removed, sbVars, wpVars, cVars, sdVars, idVars, rdVars, qVars, clVars>>
  \/ RRemove /\ UNCHANGED <<sbVars, wpVars, cVars, sdVars, idVars, rdVars, qVars, clVars>>
  \/ RSend /\ UNCHANGED <<removed, sbVars, wpVars, cVars, sdVars, idVars, rdVars, qVars, clVars>>
  \/ RSendStep /\ UNCHANGED <<removed, sbVars, wpVars, cVars, sdVars, idVars, rdVars, qVars, clVars>>
  \/ RLoopWait /\ UNCHANGED <<removed, sbVars, wpVars, cVars, sdVars, idVars, rdVars, qVars, clVars>>
  \/ LoopDispatch /\ UNCHANGED <<removed, sbVars, wpVars, cVars, sdVars, idVars, rdVars, qVars, clVars>>
  \/ RLoopRead /\ UNCHANGED <<removed, sbVars, wpVars, cVars, sdVars, idVars, rdVars, qVars, clVars>>
  \/ RPeerSend /\ UNCHANGED <<removed, sbVars, wpVars, cVars, sdVars, idVars, rdVars, qVars, clVars>>
  \/ RPeerClose /\ UNCHANGED <<removed, sbVars, wpVars, cVars, sdVars, idVars, rdVars, qVars, clVars>>
SpecReactor == InitReactor /\ [][NextReactor]_vars

TerminalTypes == {"Disconnected", "Error"}
CountOf(evs, types) == Cardinality({k \in 1..Len(evs) : evs[k] \in types})

\* C1: for every connection_id at most one terminal event (Disconnected or Error)
\* is submitted and no event for that id is submitted after it, under every
\* interleaving of the loop thread with SendData failing on a caller thread.
C1_TerminalEventIsLast ==
  \A id \in ConnIds :
    \A k \in 1..Len(events[id]) :
      events[id][k] \in TerminalTypes => k = Len(events[id])

\* C2: every connection_id for which Connected was emitted gets exactly one
\* Disconnected or Error event on every way the connection can end; stated on
\* finite runs: once the reactor no longer holds a connection that was announced
\* with Connected, exactly one terminal event has been submitted for it.
C2_EndedConnectionHasTerminal ==
  \A id \in ConnIds :
    (CountOf(events[id], {"Connected"}) > 0 /\ id \notin DOMAIN connections_)
      => CountOf(events[id], TerminalTypes) = 1

\* C3: for every connection_id the first event submitted is its single Connected
\* event: no Data, Disconnected or Error event precedes it, also when the
\* descriptor becomes readable while AddConnection is still running.
C3_FirstEventConnected ==
  \A id \in ConnIds :
    events[id] # <<>> =>
      /\ events[id][1] = "Connected"
      /\ CountOf(events[id], {"Connected"}) = 1

\* The thread is at a statement that reads or writes connections_ or
\* fd_to_connection_id_ (or holds an iterator or reference into them)
CallerAtMaps(t) == caller_pc[t] \in {"add_maps", "sending"}
LoopAtMaps == loop_pc \in {"dispatch", "read"}

\* C15: a caller thread is never at an access to the connection maps while
\* the loop thread is at one.
C15_MapAccessNeverOverlaps ==
  \A t \in Callers : ~(CallerAtMaps(t) /\ LoopAtMaps)

\* C17: a recv that fails with EAGAIN, EWOULDBLOCK or EINTR submits no event
\* and leaves the connection registered and its socket open; a recv on a
\* registered connection that fails with another error submits exactly one
\* Error event for it and closes it.
C17_ReadErrors ==
  [][ \A id \in {GarbageId} \cup ConnIds :
        /\ (LoopRead("EAGAIN", id) \/ LoopRead("EINTR", id)) =>
             UNCHANGED <<events, connections_, fd_to_connection_id_, sock>>
        /\ (LoopRead("error", id) /\ loop_conn.id \in DOMAIN connections_) =>
             /\ events' = Submit(events, "Error", loop_conn.id)
             /\ loop_conn.id \notin DOMAIN connections_'
             /\ ~sock'[loop_conn.fd].open ]_vars

InitCodec == CInit(MessageScenarios \cup FrameScenarios \cup LongScenarios) /\ SBInit /\ WPIdle /\ RInit /\ SDIdle /\ IdIdle /\ RdIdle /\ QIdle /\ ClIdle
NextCodec ==
  \/ CodecEncode /\ UNCHANGED <<sbVars, wpVars, rVars, sdVars, idVars, rdVars, qVars, clVars>>
  \/ CodecFeed /\ UNCHANGED <<sbVars, wpVars, rVars, sdVars, idVars, rdVars, qVars, clVars>>
  \/ CodecGetMessage /\ UNCHANGED <<sbVars, wpVars, rVars, sdVars, idVars, rdVars, qVars, clVars>>
  \/ CodecGetStreamEvent /\ UNCHANGED <<sbVars, wpVars, rVars, sdVars, idVars, rdVars, qVars, clVars>>
SpecCodec == InitCodec /\ [][NextCodec]_vars

InitCrc == CInit(FlipScenarios) /\ SBInit /\ WPIdle /\ RInit /\ SDIdle /\ IdIdle /\ RdIdle /\ QIdle /\ ClIdle
NextCrc ==
  \/ CodecEncode /\ UNCHANGED <<sbVars, wpVars, rVars, sdVars, idVars, rdVars, qVars, clVars>>
  \/ CrcFeed /\ UNCHANGED <<sbVars, wpVars, rVars, sdVars, idVars, rdVars, qVars, clVars>>
SpecCrc == InitCrc /\ [][NextCrc]_vars

\* The MessageComplete and StreamEvent values handed out so far followed by
\* the ones still queued
Returned(got) == SelectSeq(got, LAMBDA r : r.ret)
AllMessages ==
  [i \in 1..Len(Returned(got_messages)) |-> Returned(got_messages)[i].out]
    \o decoder.completed_messages_
AllEvents ==
  [i \in 1..Len(Returned(got_events)) |-> Returned(got_events)[i].out]
    \o decoder.stream_events_

\* C6: EncodeMessage(id, B, crc) does not throw for any payload from the empty
\* one upwards, and once all of its serialized frames have been fed to a fresh
\* Decoder, GetMessage yields exactly one MessageComplete, with message_id id
\* and data B, and false on every other call.
C6_RoundTrip ==
  (scenario.kind = "message" /\ c_phase # "encode") =>
    /\ enc_thrown = ""
    /\ decoder.thrown = ""
    /\ fed = Len(wire) =>
         AllMessages = <<[message_id |-> LittleEndian(scenario.message_id, 8),
                          data |-> scenario.data]>>

\* C7: however the bytes fed so far were split into Feed calls, the decoder
\* holds what a fresh decoder holds after one Feed of the same bytes: the same
\* completed messages, stream events, pending entries, buffered bytes and
\* counters.
C7_SplitIndependent ==
  (c_phase = "feed" /\ fed > 0) =>
    LET whole == Feed(NewDecoder, SubSeq(wire, 1, fed)) IN
      /\ AllMessages = whole.completed_messages_
      /\ AllEvents = whole.stream_events_
      /\ decoder.messages_ = whole.messages_
      /\ decoder.stats_ = whole.stats_
      /\ decoder.buffer_ = whole.buffer_
      /\ decoder.thrown = "" /\ whole.thrown = ""

\* A frame sequence fed in pieces that cut a frame in two, after a stream
\* event was decoded and while a message is waiting for a slice.
C7_Witness ==
  /\ scenario.kind = "frames"
  /\ decoder.stats_.stream_events >= 1
  /\ decoder.messages_ # EmptyMap
  /\ Len(decoder.buffer_) > 0
  /\ decoder.stats_.frames_received >= 2

\* C8: with CRC enabled, after one bit of the payload of one frame was
\* inverted, the decoder drops that frame and counts a CRC error, throws no
\* ProtocolError, completes no message with the id of the damaged one, and
\* still decodes every frame after it: the other slices of the message stay
\* pending and the message that follows is completed.
C8_BitFlipDropsFrame ==
  (scenario.kind = "flip" /\ c_phase = "feed") =>
    /\ decoder.thrown = ""
    /\ \A i \in 1..Len(AllMessages) :
         AllMessages[i].message_id # LittleEndian(scenario.message_id, 8)
    /\ fed = Len(wire) =>
         LET total == Len(EncodeMessage(scenario.message_id, scenario.data,
                                        TRUE).frames)
             id == LittleEndian(scenario.message_id, 8)
         IN /\ decoder.stats_.crc_errors >= 1
            /\ decoder.stats_.frames_received = total + Len(FollowingFrames)
            /\ decoder.buffer_ = <<>>
            /\ AllMessages = <<FollowingMessage>>
            /\ IF total = 1 THEN id \notin DOMAIN decoder.messages_
               ELSE /\ id \in DOMAIN decoder.messages_
                    /\ decoder.messages_[id].received = total - 1
                    /\ decoder.messages_[id].slices[scenario.slice] = <<>>

\* The whole stream was fed, the damaged frame was not the last slice of its
\* message, and the CRC error was counted.
C8_Witness ==
  /\ scenario.kind = "flip"
  /\ fed = Len(wire)
  /\ scenario.slice < Len(EncodeMessage(scenario.message_id, scenario.data,
                                         TRUE).frames)
  /\ decoder.stats_.crc_errors = 1
  /\ decoder.stats_.messages_completed = 1

\* The bytes of the caller's data that a Message frame carries: its payload
\* without the MessageHeader and without the CRC that follows the payload.
UserBytes(f) ==
  SubSeq(f.payload, MessageHeaderSize + 1,
         f.payload_len - (IF f.flags = FLAG_CRC32 THEN 4 ELSE 0))

\* C20: after EncodeMessage was called, it has thrown ProtocolError if the
\* number of slices ceil(length / slice_payload) is above 65535, and if it has
\* not thrown, the frames it returned (the ones on the wire) carry, in order,
\* exactly the bytes of the input.
C20_TooManySlicesThrows ==
  (scenario.kind \in {"message", "long"} /\ c_phase # "encode") =>
    LET data == ScenarioData
        slice_payload == SlicePayload(scenario.enable_crc)
        slices == (Len(data) + slice_payload - 1) \div slice_payload
        enc == EncodeMessage(scenario.message_id, data, scenario.enable_crc)
    IN /\ slices > MAX_MESSAGE_SLICES => enc_thrown # ""
       /\ enc_thrown = "" =>
            /\ wire = SerializeFrames(enc.frames)
            /\ Concat([i \in 1..Len(enc.frames) |-> UserBytes(enc.frames[i])])
                 = data

InitSendData == SDInit /\ SBInit /\ WPIdle /\ RInit /\ CIdle /\ IdIdle /\ RdIdle /\ QIdle /\ ClIdle
NextSendData ==
  \/ SDCall /\ UNCHANGED <<sbVars, wpVars, rVars, cVars, idVars, rdVars, qVars, clVars>>
  \/ SDLoop /\ UNCHANGED <<sbVars, wpVars, rVars, cVars, idVars, rdVars, qVars, clVars>>
  \/ SDRecv /\ UNCHANGED <<sbVars, wpVars, rVars, cVars, idVars, rdVars, qVars, clVars>>
  \/ PeerReset /\ UNCHANGED <<sbVars, wpVars, rVars, cVars, idVars, rdVars, qVars, clVars>>
SpecSendData == InitSendData /\ [][NextSendData]_vars

\* C11: once the socket has reported that it is full to a SendData call (the
\* peer is not reading and the pending bytes have reached the ceiling), that
\* call has returned false, and the connection is still open with no Error or
\* Disconnected event submitted for it.
C11_FullSocketReturnsFalse ==
  \A t \in Senders :
    (sd_eagain[t] /\ ~sd_err) =>
      /\ sd_pc[t] = "idle"
      /\ sd_ret[sd_call[t]] = "false"
      /\ sd_open
      /\ sd_events = <<>>

\* C12: when every SendData call has returned true and the peer, which did
\* not reset the connection, has received everything, the peer got exactly one kData event (one on_message call) per
\* SendData call, each carrying exactly the bytes of one call.
C12_OneCallbackPerSend ==
  ( /\ \A t \in Senders : sd_pc[t] = "idle"
    /\ \A c \in SendCalls : sd_ret[c] = "true"
    /\ ~sd_err
    /\ sd_kernel = <<>> )
  => /\ Len(sd_delivered) = Len(sd_sizes)
     /\ \A i \in 1..Len(sd_delivered) :
          \E c \in SendCalls : sd_delivered[i] = DataOf(c)

\* C13: a thread inside SendData can always take a step of its own that gets
\* it further (a send() that takes bytes, or the return), whatever the peer
\* does; so the call returns even if the peer never reads.
C13_SendDataCanProceed ==
  \A t \in Senders :
    sd_pc[t] = "send" =>
      ENABLED (\E ret \in SendReturns(t), stale \in BOOLEAN :
                 /\ SendDataLoop(t, ret, stale)
                 /\ <<sd_pc, sd_sent, sd_eagain>>' # <<sd_pc, sd_sent, sd_eagain>>)

\* The bytes in the order in which the socket took them
SocketStream == Concat(sd_delivered) \o sd_kernel

\* C14: in the byte stream of the connection the bytes of each SendData call
\* are contiguous: between two bytes of one call there is no byte of another.
C14_CallsNotInterleaved ==
  \A i \in 1..Len(SocketStream) : \A j \in i..Len(SocketStream) :
    SocketStream[i][1] = SocketStream[j][1] =>
      \A k \in i..j : SocketStream[k][1] = SocketStream[i][1]

InitIds == IdInit /\ SBInit /\ WPIdle /\ RInit /\ CIdle /\ SDIdle /\ RdIdle /\ QIdle /\ ClIdle
NextIds ==
  \/ IdRead /\ UNCHANGED <<sbVars, wpVars, rVars, cVars, sdVars, rdVars, qVars, clVars>>
  \/ IdWrite /\ UNCHANGED <<sbVars, wpVars, rVars, cVars, sdVars, rdVars, qVars, clVars>>
  \/ IdRegister /\ UNCHANGED <<sbVars, wpVars, rVars, cVars, sdVars, rdVars, qVars, clVars>>
SpecIds == InitIds /\ [][NextIds]_vars

\* C18: the connection ids that were assigned are pairwise distinct, whichever
\* reactors assigned them and whichever threads called AddConnection.
C18_IdsPairwiseDistinct ==
  \A i, j \in 1..Len(ids_assigned) :
    i # j => ids_assigned[i].connection_id # ids_assigned[j].connection_id

\* C19: every assigned connection id has the layout date | reactor | fd | seq:
\* Parse returns the current date, the assigning reactor's id and the low 16 bits
\* of the descriptor, and Generate rebuilds the id from these fields.
C19_IdFollowsLayout ==
  \A i \in 1..Len(ids_assigned) :
    LET a == ids_assigned[i]
        p == Parse(a.connection_id)
    IN /\ p.reactorId = a.reactor % 256
       /\ p.fd = a.fd % Limb
       /\ p.date = GetCurrentDate
       /\ a.connection_id = Generate(a.reactor, a.fd, p.seq)

InitDecoder ==
  /\ RdInit(NetFrames, 2, MaxRawFrames, MessageTimeout)
  /\ SBInit /\ WPIdle /\ RInit /\ CIdle /\ SDIdle /\ IdIdle /\ QIdle /\ ClIdle
NextDecoder ==
  \/ RdSendAny /\ UNCHANGED <<sbVars, wpVars, rVars, cVars, sdVars, idVars, qVars, clVars>>
  \/ RdFeedAny /\ UNCHANGED <<sbVars, wpVars, rVars, cVars, sdVars, idVars, qVars, clVars>>
  \/ RdTick /\ UNCHANGED <<sbVars, wpVars, rVars, cVars, sdVars, idVars, qVars, clVars>>
  \/ RdCleanup /\ UNCHANGED <<sbVars, wpVars, rVars, cVars, sdVars, idVars, qVars, clVars>>
SpecDecoder == InitDecoder /\ [][NextDecoder]_vars

\* The header at the front of the decoder's buffer is one Feed must refuse.
BadHeaderAtFront ==
  LET buf == rd_decoder.buffer_ IN
  /\ Len(buf) >= FrameHeaderSize
  /\ \/ buf[1] # MAGIC1 \/ buf[2] # MAGIC2
     \/ buf[3] # VERSION
     \/ U32(SubSeq(buf, 7, 10)) > MAX_FRAME_PAYLOAD

\* A complete frame is at the front of the decoder's buffer.
WholeFrameAtFront ==
  LET buf == rd_decoder.buffer_ IN
  /\ Len(buf) >= FrameHeaderSize
  /\ Len(buf) >= FrameHeaderSize + U32(SubSeq(buf, 7, 10))

\* C21: a Feed call has thrown ProtocolError exactly if the header at the front
\* of the buffer has a wrong magic byte, a wrong version or a payload_len above
\* MAX_FRAME_PAYLOAD; a call that has not thrown leaves in the buffer only bytes
\* that are fewer than a header or a frame with an incomplete payload.
C21_ProtocolErrorOnlyForBadHeader ==
  (rd_last.op = "feed") =>
    /\ (rd_decoder.thrown # "") <=> BadHeaderAtFront
    /\ (rd_decoder.thrown = "") => ~WholeFrameAtFront

\* C22: once a frame whose type byte is none of 0x01..0x04 has been fed
\* completely, Feed has thrown ProtocolError and the frame has produced no
\* stream event and no message.
C22_UnknownTypeThrows ==
  \A k \in 1..Len(rd_sent) :
    (rd_frames[rd_sent[k]].kind = "unknown type"
       /\ (k < Len(rd_sent) \/ rd_wire = <<>>))
      => /\ rd_decoder.thrown # ""
         /\ \A e \in 1..Len(rd_decoder.stream_events_) :
              rd_decoder.stream_events_[e].type
                \in {FrameTypeStreamStart, FrameTypeStreamChunk, FrameTypeStreamEnd}

\* Age of the entry of message id: the time since its first slice was decoded.
EntryAge(id) == rd_clock - rd_first[id]

C29_CompleteOnlyWithAllSlices ==
  /\ \A k \in 1..Len(rd_done) :
       rd_done[k].seqs = 0..(rd_done[k].total - 1)
  /\ \A id \in DOMAIN rd_decoder.messages_ :
       id \in DOMAIN rd_seqs
         => rd_decoder.messages_[id].received = Cardinality(rd_seqs[id])

InitReassembly ==
  /\ RdInit(MessageFrames, 1, Len(MessageFrames), DEFAULT_MESSAGE_TIMEOUT_MS)
  /\ SBInit /\ WPIdle /\ RInit /\ CIdle /\ SDIdle /\ IdIdle /\ QIdle /\ ClIdle
NextReassembly ==
  \/ RdSendAny /\ UNCHANGED <<sbVars, wpVars, rVars, cVars, sdVars, idVars, qVars, clVars>>
  \/ RdFeedAny /\ UNCHANGED <<sbVars, wpVars, rVars, cVars, sdVars, idVars, qVars, clVars>>
SpecReassembly == InitReassembly /\ [][NextReassembly]_vars

\* What a decoder completes when it is fed the frames in encoder order
InEncoderOrder ==
  Feed(NewDecoder,
       Concat([i \in 1..Len(MessageFrames) |-> MessageFrames[i].bytes]))
    .completed_messages_

SeqRange(seq) == {seq[i] : i \in 1..Len(seq)}

\* C30: in whatever order the frames of the messages arrive, every message the
\* decoder completes is one of the messages it completes when fed in encoder
\* order, none is completed twice, and when all frames have arrived it has
\* completed the same messages, with the same data, and no entry is pending.
C30_OrderIndependent ==
  LET done == rd_decoder.completed_messages_ IN
  /\ rd_decoder.thrown = ""
  /\ SeqRange(done) \subseteq SeqRange(InEncoderOrder)
  /\ Cardinality(SeqRange(done)) = Len(done)
  /\ (Len(rd_sent) = Len(rd_frames) /\ rd_wire = <<>>) =>
       /\ SeqRange(done) = SeqRange(InEncoderOrder)
       /\ Len(done) = Len(InEncoderOrder)
       /\ GetStats(rd_decoder).pending_messages = 0

\* C30 witness: all frames arrived, the last slice of the first message first
\* and its first slice last, with the slices of the other message in between
\* in reverse order, and both messages were completed.
C30_Witness ==
  /\ rd_sent = <<3, 5, 2, 4, 1>>
  /\ rd_wire = <<>>
  /\ Len(rd_decoder.completed_messages_) = 2

InitQueue == QInit /\ SBInit /\ WPIdle /\ RInit /\ CIdle /\ SDIdle /\ IdIdle /\ RdIdle /\ ClIdle
NextQueue ==
  \/ (\E t \in QueueThreads : EnqueueCall(t)) /\ UNCHANGED <<q_woken, sbVars, wpVars, rVars, cVars, sdVars, idVars, rdVars, clVars>>
  \/ (\E t \in QueueThreads : EnqueueReturn(t)) /\ UNCHANGED <<sbVars, wpVars, rVars, cVars, sdVars, idVars, rdVars, clVars>>
  \/ (\E t \in QueueThreads : TryEnqueue(t)) /\ UNCHANGED <<q_woken, sbVars, wpVars, rVars, cVars, sdVars, idVars, rdVars, clVars>>
  \/ (\E t \in QueueThreads : TryDequeue(t)) /\ UNCHANGED <<q_woken, sbVars, wpVars, rVars, cVars, sdVars, idVars, rdVars, clVars>>
  \/ (\E t \in QueueThreads : WaitDequeueCall(t)) /\ UNCHANGED <<q_woken, sbVars, wpVars, rVars, cVars, sdVars, idVars, rdVars, clVars>>
  \/ (\E t \in QueueThreads : WaitDequeueReturn(t)) /\ UNCHANGED <<sbVars, wpVars, rVars, cVars, sdVars, idVars, rdVars, clVars>>
  \/ (\E t \in QueueThreads : NotifyStop(t)) /\ UNCHANGED <<sbVars, wpVars, rVars, cVars, sdVars, idVars, rdVars, clVars>>
  \/ (\E t \in QueueThreads : QueueReset(t)) /\ UNCHANGED <<q_woken, sbVars, wpVars, rVars, cVars, sdVars, idVars, rdVars, clVars>>
SpecQueue == InitQueue /\ [][NextQueue]_vars

\* C24: a queue built with max_size > 0 never holds more than max_size items;
\* TryEnqueue returns false exactly when the queue was full or stopped, and adds
\* its value exactly when it returns true; Enqueue returns only once the queue
\* has room or is stopped, and a thread inside Enqueue stays there while the
\* queue is full and not stopped.
C24_BoundedAndBackpressure ==
  q_max_size_ > 0 =>
    /\ Len(q_queue) <= q_max_size_
    /\ q_last.op = "TryEnqueue" =>
         /\ q_last.ret = ~(Len(q_last.queue) >= q_max_size_ \/ q_last.stopped)
         /\ q_queue = IF q_last.ret THEN Append(q_last.queue, q_last.value)
                      ELSE q_last.queue
    /\ q_last.op = "Enqueue" =>
         /\ Len(q_last.queue) < q_max_size_ \/ q_last.stopped
         /\ q_last.ret = ~q_last.stopped
    /\ \A t \in QueueThreads :
         (q_pc[t] = "Enqueue" /\ Len(q_queue) >= q_max_size_ /\ ~q_is_stopped_)
           => ~ENABLED EnqueueReturn(t)

C24_Witness ==
  /\ q_max_size_ > 0
  /\ Len(q_queue) = q_max_size_
  /\ ~q_is_stopped_
  /\ \E t \in QueueThreads : q_pc[t] = "Enqueue"
  /\ q_last.op = "TryEnqueue" /\ ~q_last.ret

\* C25: while the queue is stopped, Enqueue, TryEnqueue and WaitDequeue return
\* false and leave the queue as it was, with or without items queued;
\* NotifyStop and Reset leave the items and their order alone; on a queue that
\* is not stopped (in particular after Reset) WaitDequeue on a non-empty queue
\* removes and returns the oldest item and Enqueue adds its value at the back.
C25_StoppedQueueIsFrozen ==
  /\ (q_last.op \in {"Enqueue", "TryEnqueue", "WaitDequeue"} /\ q_last.stopped)
       => ~q_last.ret /\ q_queue = q_last.queue
  /\ q_last.op \in {"NotifyStop", "Reset"} => q_queue = q_last.queue
  /\ (q_last.op = "WaitDequeue" /\ ~q_last.stopped /\ q_last.queue # <<>>)
       => /\ q_last.ret
          /\ q_last.value = Head(q_last.queue)
          /\ q_queue = Tail(q_last.queue)
  /\ (q_last.op = "Enqueue" /\ ~q_last.stopped)
       => q_last.ret /\ q_queue = Append(q_last.queue, q_last.value)

C25_Witness ==
  /\ q_last.op = "WaitDequeue"
  /\ q_last.stopped
  /\ ~q_last.ret
  /\ Len(q_queue) = 2
  /\ \E t \in QueueThreads : q_pc[t] = "Enqueue"

InitClient == ClInit /\ SBInit /\ WPIdle /\ RInit /\ CIdle /\ SDIdle /\ IdIdle /\ RdIdle /\ QIdle
NextClient ==
  \/ (\E outcome \in {"ok", "connect fails", "monitor fails"} : ConnectIPv4(outcome)) /\ UNCHANGED <<sbVars, wpVars, rVars, cVars, sdVars, idVars, rdVars, qVars>>
  \/ Disconnect /\ UNCHANGED <<sbVars, wpVars, rVars, cVars, sdVars, idVars, rdVars, qVars>>
  \/ (\E cb \in Callbacks : SetOnMessageBegin(cb)) /\ UNCHANGED <<cl_closes, sbVars, wpVars, rVars, cVars, sdVars, idVars, rdVars, qVars>>
  \/ SetOnMessageEnd /\ UNCHANGED <<cl_closes, sbVars, wpVars, rVars, cVars, sdVars, idVars, rdVars, qVars>>
  \/ (\E fd \in 1..MaxSockets : ClientDataArrives(fd)) /\ UNCHANGED <<cl_closes, sbVars, wpVars, rVars, cVars, sdVars, idVars, rdVars, qVars>>
  \/ (\E fd \in 1..MaxSockets : ClientPeerCloses(fd)) /\ UNCHANGED <<sbVars, wpVars, rVars, cVars, sdVars, idVars, rdVars, qVars>>
  \/ ClientWorker /\ UNCHANGED <<cl_closes, sbVars, wpVars, rVars, cVars, sdVars, idVars, rdVars, qVars>>
SpecClient == InitClient /\ [][NextClient]_vars

\* C26: the client never holds more than one connection, and a ConnectIPv4
\* call made while the client is connected has closed the old connection when
\* it returns and, when connecting succeeds, returns true holding the new one.
C26_ReconnectReplacesConnection ==
  /\ Cardinality(cl_conns) <= 1
  /\ (cl_last.op = "ConnectIPv4" /\ cl_last.state = "kConnected")
       => /\ cl_last.conns \cap cl_conns = {}
          /\ cl_last.outcome = "ok" => cl_last.ret /\ cl_conns = {cl_last.fd}

\* C27: once a callback has been set, every on_message callback invoked for a
\* Data event is the one set by the last SetOnMessage call that had returned
\* when the event was dispatched, or, while a SetOnMessage call is replacing
\* it, either that one or its replacement.
C27_ReplacedCallbackIsUsed ==
  \A k \in 1..Len(cl_invoked) :
    cl_invoked[k].slot # NoCallback =>
      \/ cl_invoked[k].cb = cl_invoked[k].slot
      \/ cl_invoked[k].writing # NoCallback /\ cl_invoked[k].cb = cl_invoked[k].writing

\* C28: once RemoveConnection(id), called by the owner of the reactor, has
\* returned true, no step submits another event for id, and the loop thread is
\* not inside HandleReadEvent with the descriptor of id, about to call recv on it.
C28_NoEventAfterRemove ==
  [][/\ \A id \in removed : events'[id] = events[id]
     /\ loop_pc' = "read" => loop_conn'.id \notin removed']_vars

InitStream == CInit(StreamScenarios) /\ SBInit /\ WPIdle /\ RInit /\ SDIdle /\ IdIdle /\ RdIdle /\ QIdle /\ ClIdle
NextStream ==
  \/ CodecEncode /\ UNCHANGED <<sbVars, wpVars, rVars, sdVars, idVars, rdVars, qVars, clVars>>
  \/ StreamFeed /\ UNCHANGED <<sbVars, wpVars, rVars, sdVars, idVars, rdVars, qVars, clVars>>
  \/ StreamGetEvent /\ UNCHANGED <<sbVars, wpVars, rVars, sdVars, idVars, rdVars, qVars, clVars>>
SpecStream == InitStream /\ [][NextStream]_vars

\* The StreamEvent that carries what a call of the Encoder was given.
ExpectedEvent(c) ==
  [type |-> CASE c.op = "start" -> FrameTypeStreamStart
              [] c.op = "chunk" -> FrameTypeStreamChunk
              [] OTHER -> FrameTypeStreamEnd,
   stream_id |-> LittleEndian(c.stream_id, 8),
   offset |-> LittleEndian(c.offset, 8),
   total_size |-> LittleEndian(c.total_size, 8),
   crc32 |-> LittleEndian(c.crc32, 4),
   data |-> c.data]

\* Number of frames of the scenario that have been fed completely.
RECURSIVE WholeFrames(_, _)
WholeFrames(frames, n) ==
  IF frames = <<>> \/ Len(Serialize(Head(frames))) > n THEN 0
  ELSE 1 + WholeFrames(Tail(frames), n - Len(Serialize(Head(frames))))

\* The calls whose frames have been fed completely, in order.
ArrivedCalls == SubSeq(scenario.script, 1, WholeFrames(scenario.frames, fed))

RECURSIVE EventsOf(_)
EventsOf(calls) ==
  IF calls = <<>> THEN <<>>
  ELSE (IF Head(calls).op = "slice" THEN <<>> ELSE <<ExpectedEvent(Head(calls))>>)
         \o EventsOf(Tail(calls))

RECURSIVE ReturnedEvents(_)
ReturnedEvents(gets) ==
  IF gets = <<>> THEN <<>>
  ELSE (IF Head(gets).ret THEN <<Head(gets).out>> ELSE <<>>) \o ReturnedEvents(Tail(gets))

\* C31: the events GetStreamEvent has returned, followed by those still
\* queued, are exactly the events of the stream frames fed completely so far,
\* in arrival order and with the encoded fields, whether or not slices of a
\* message are pending; GetStreamEvent returns false exactly when every such
\* event has been returned; the completed messages hold message 513 alone,
\* with its own bytes, once both its slices have arrived.
C31_StreamEventsRoundTrip ==
  [][(c_phase' = "feed") =>
       /\ ReturnedEvents(got_events') \o decoder'.stream_events_ = EventsOf(ArrivedCalls')
       /\ StreamGetEvent =>
            (got_events'[Len(got_events')].ret
               <=> Len(ReturnedEvents(got_events)) < Len(EventsOf(ArrivedCalls)))
       /\ decoder'.completed_messages_ =
            IF {ArrivedCalls'[k].slice : k \in 1..Len(ArrivedCalls')} \ {0}
                 = 1..Len(SlicesB)
              THEN <<[message_id |-> LittleEndian(513, 8),
                      data |-> <<1, 2, 3, 4, 5, 6, 7>>]>>
              ELSE <<>>]_vars

\* C31 witness: the stream of the first script has been fed to the end, its
\* three events have been returned in order between the slices of message
\* 513, and a fourth GetStreamEvent has returned false.
C31_Witness ==
  /\ c_phase = "feed"
  /\ fed = Len(wire)
  /\ Len(got_events) = 4
  /\ got_events[1].ret /\ got_events[1].out = ExpectedEvent(StreamStart(2, 1))
  /\ got_events[2].ret /\ got_events[2].out = ExpectedEvent(StreamChunk(2, 0, <<5>>))
  /\ got_events[3].ret /\ got_events[3].out = ExpectedEvent(StreamEnd(2, 0))
  /\ ~got_events[4].ret
  /\ Len(decoder.completed_messages_) = 1

\* C32: when the loop thread dispatches a ready event that carries the
\* peer-closed flag for a connection whose peer has closed, every chunk the
\* peer sent has already been submitted as a Data event (nothing is left
\* unread in the socket), and the step submits Disconnected as the next event
\* of the connection and closes the descriptor.
C32_PeerClosedAfterData ==
  [][(/\ LoopDispatch
      /\ loop_batch # <<>>
      /\ Head(loop_batch).eof
      /\ Head(loop_batch).fd \in DOMAIN fd_to_connection_id_
      /\ fd_to_connection_id_[Head(loop_batch).fd] \in DOMAIN connections_
      /\ sock[Head(loop_batch).fd].peer_closed)
       => LET fd == Head(loop_batch).fd
              id == fd_to_connection_id_[fd]
          IN /\ sock[fd].pending = 0
             /\ events'[id] = Append(events[id], "Disconnected")
             /\ ~sock'[fd].open]_vars

\* C33: every Data event submitted for a connection carries the chunk one
\* recv call took from the socket of that same connection: the step that
\* submits it removes one unread chunk from the descriptor registered for the
\* connection id, so the Data events of an id are the chunks read from its
\* socket, each once and in order.
C33_DataIsFromOwnSocket ==
  [][\A id \in ConnIds :
       (events'[id] = Append(events[id], "Data"))
         => /\ id \in DOMAIN connections_
            /\ sock[connections_[id]].open
            /\ sock'[connections_[id]].pending = sock[connections_[id]].pending - 1]_vars

\* C34: once Stop has returned, every event submitted before that Stop call
\* has been delivered to the callback, exactly once.
C34_SubmittedBeforeStopDelivered ==
  (stop_pc = "returned") =>
    \A c \in PoolConnections : \A tag \in 1..stop_seen[c] :
      Cardinality({k \in 1..Len(delivered[c]) : delivered[c][k] = tag}) = 1

\* C35: no descriptor the client hands to its reactor is closed more than once,
\* whether AddConnection fails and ConnectInternal cleans up, the reactor
\* closes the connection, or Disconnect stops the reactor.
C35_DescriptorClosedOnce ==
  \A fd \in 1..MaxSockets : cl_closes[fd] <= 1

\* Frames a peer can send that no Encoder makes: a slice of a message whose
\* first slice announced fewer slices, and frames whose payload is shorter
\* than the structure their type stands for, one of them only after its CRC
\* trailer is taken off.
MalformedFrames ==
  << SliceFrame(2, 2, 0, <<4>>, FALSE),
     SliceFrame(2, 3, 2, <<5>>, FALSE),
     OtherFrame("short message",
                Serialize(MakeFrame(FrameTypeMessage, <<1, 2, 3, 4>>, FALSE))),
     OtherFrame("short start",
                Serialize(MakeFrame(FrameTypeStreamStart, LittleEndian(2, 8), FALSE))),
     OtherFrame("short chunk",
                Serialize(MakeFrame(FrameTypeStreamChunk, LittleEndian(2, 8), TRUE))),
     OtherFrame("short end",
                Serialize(MakeFrame(FrameTypeStreamEnd, LittleEndian(2, 8), FALSE))) >>

InitMalformed ==
  /\ RdInit(MalformedFrames, 1, 2, DEFAULT_MESSAGE_TIMEOUT_MS)
  /\ SBInit /\ WPIdle /\ RInit /\ CIdle /\ SDIdle /\ IdIdle /\ QIdle /\ ClIdle
NextMalformed ==
  \/ RdSendAny /\ UNCHANGED <<sbVars, wpVars, rVars, cVars, sdVars, idVars, qVars, clVars>>
  \/ RdFeedAny /\ UNCHANGED <<sbVars, wpVars, rVars, cVars, sdVars, idVars, qVars, clVars>>
SpecMalformed == InitMalformed /\ [][NextMalformed]_vars

\* C36: no Feed call stores a slice at an index outside the slices of its
\* reassembly entry, also when a later frame of the message carries another
\* total_slices than the first; every entry keeps as many slots as the
\* total_slices it recorded.
C36_SliceStoredInsideEntry ==
  /\ rd_decoder.thrown # "undefined: slices index"
  /\ \A id \in DOMAIN rd_decoder.messages_ :
       Len(rd_decoder.messages_[id].slices) = rd_decoder.messages_[id].total

\* C37: no Feed call reads a MessageHeader, a StreamStartPayload, a
\* StreamChunkPayload or a StreamEndPayload from a frame whose payload, without
\* its CRC trailer, is shorter than that structure.
C37_PayloadReadInsideFrame ==
  rd_decoder.thrown \notin {"undefined: message header", "undefined: stream payload"}

\* bool Client::Impl::IsConnected()
IsConnected == cl_state = "kConnected"

\* C38: a ConnectIPv4 call that returns false leaves the state of the client,
\* and so IsConnected(), and its live connection as they were; when the last
\* call of the user thread was Disconnect, IsConnected() is false.
C38_IsConnectedFollowsConnection ==
  [][/\ (cl_next_fd' # cl_next_fd /\ ~cl_last'.ret)
          => (cl_state' = cl_state /\ cl_conns' = cl_conns)
     /\ (cl_last'.op = "Disconnect") => ~IsConnected']_vars

\* C39: the bytes of buffer_ between read_pos_ and write_pos_ are the data of
\* the Write calls that returned true since the buffer was made or cleared, in
\* call order, without the bytes send() has taken: growth, compaction, a send
\* that takes nothing and a Write that fails leave them as they are.
C39_ReadableBytesArePending ==
  /\ RunLen(buffer_) = buffer_size
  /\ BytesOf(buffer_, read_pos_, write_pos_) = sb_pending

\* C39 witness: after a send took a prefix, a Write compacted and grew the
\* buffer; bytes of two Write calls wait, the first without its sent prefix.
C39_Witness ==
  /\ Len(sb_pending) >= 2
  /\ sb_pending[1].off > 0
  /\ read_pos_ = 0
  /\ buffer_size > INITIAL_CAPACITY
  /\ sb_last.op = "Write" /\ sb_last.ret = 1

\* A thread whose wait can end does end it: a thread waiting on not_full_ runs
\* once its predicate stays true, and the wait_for of WaitDequeue times out.
SpecQueueFair ==
  /\ SpecQueue
  /\ \A t \in QueueThreads :
       WF_qVars(EnqueueReturn(t)) /\ WF_qVars(WaitDequeueReturn(t))

\* C40: every thread that NotifyStop found blocked in Enqueue on a full queue
\* or in WaitDequeue on an empty queue returns false from that call at some
\* time, whatever is called after NotifyStop.
C40_BlockedThreadReturnsFalse ==
  \A t \in QueueThreads :
    (t \in q_woken)
      ~> (/\ q_last.thread = t
          /\ q_last.op \in {"Enqueue", "WaitDequeue"}
          /\ ~q_last.ret
          /\ t \notin q_woken)

====
